---------------------------- MODULE Spec2Model ----------------------------
(***************************************************************************)
(* A model of netaddr's EUI layer: netaddr/eui/__init__.py (EUI, IAB,      *)
(* EUIRange, iter_EUIRange) and netaddr/eui/sets.py (EUISet).              *)
(*                                                                         *)
(* Python integers are unbounded and the program's widths are 48 and 64    *)
(* bits, beyond TLC's 32-bit integers.  An integer of the program is       *)
(* therefore a triple <<hi, mid, lo>> of limbs in radix 2^24 standing for  *)
(* hi * 2^48 + mid * 2^24 + lo, with mid and lo in 0 .. 2^24 - 1 and hi    *)
(* signed (floor representation, so -1 is <<-1, 2^24 - 1, 2^24 - 1>>).     *)
(* All widths, masks and literals below are the program's own.             *)
(***************************************************************************)
EXTENDS Integers, Sequences, FiniteSets, TLC

VARIABLES
    eui,      \* SpecEUI: the EUI object under mutation (NoObj before construction)
    rng,      \* SpecRange: the EUIRange under test (NoRange before construction)
    heap,     \* SpecSet: the EUI objects alive, by identity
    sets,     \* SpecSet: the _euis table of each EUISet
    pfx,      \* SpecPrefix: the EUIPrefix under test (NoPrefix before construction)
    reg,      \* SpecRegistry: the OUI / IAB construction in progress
    out       \* the outcome of the last operation: [op, arg, err, val]

vars == <<eui, rng, heap, sets, pfx, reg, out>>

---------------------------------------------------------------------------
(* Python int: + - comparisons >> << | & ^ and int.bit_length()            *)

R == 2^24

Norm(a, b, c) ==
    LET b1 == b + (c \div R)
    IN  <<a + (b1 \div R), b1 % R, c % R>>

\* a native integer n (|n| < 2^30) as an integer of the program
PyInt(n) == Norm(0, 0, n)

Add(x, y) == Norm(x[1] + y[1], x[2] + y[2], x[3] + y[3])

Sub(x, y) == Norm(x[1] - y[1], x[2] - y[2], x[3] - y[3])

Lt(x, y) ==
    \/ x[1] < y[1]
    \/ x[1] = y[1] /\ x[2] < y[2]
    \/ x[1] = y[1] /\ x[2] = y[2] /\ x[3] < y[3]

Le(x, y) == x = y \/ Lt(x, y)

\* x >> n (floor, as Python's >> on a negative integer)
RECURSIVE ShiftR(_, _)
ShiftR(x, n) ==
    IF n >= 24
    THEN ShiftR(<<x[1] \div R, x[1] % R, x[2]>>, n - 24)
    ELSE LET p == 2^n
             q == 2^(24 - n)
         IN  <<x[1] \div p,
               (x[1] % p) * q + (x[2] \div p),
               (x[2] % p) * q + (x[3] \div p)>>

\* x << n, for x >= 0 whose result stays below 2^72
RECURSIVE ShiftL(_, _)
ShiftL(x, n) ==
    IF n >= 24
    THEN ShiftL(<<x[2], x[3], 0>>, n - 24)
    ELSE LET p == 2^n
             q == 2^(24 - n)
         IN  <<x[1] * p + (x[2] \div q),
               (x[2] % q) * p + (x[3] \div q),
               (x[3] % q) * p>>

BitOf(op, a, b) ==
    CASE op = "or"  -> IF a + b > 0 THEN 1 ELSE 0
      [] op = "and" -> a * b
      [] op = "xor" -> (a + b) % 2

RECURSIVE LimbOp(_, _, _, _)
LimbOp(op, a, b, n) ==
    IF n = 0
    THEN 0
    ELSE BitOf(op, a % 2, b % 2) + 2 * LimbOp(op, a \div 2, b \div 2, n - 1)

\* bitwise operators on integers 0 <= x, y < 2^72
BitOp(op, x, y) ==
    <<LimbOp(op, x[1], y[1], 24), LimbOp(op, x[2], y[2], 24), LimbOp(op, x[3], y[3], 24)>>

BitOr(x, y) == BitOp("or", x, y)

BitAnd(x, y) == BitOp("and", x, y)

BitXor(x, y) == BitOp("xor", x, y)

RECURSIVE NatBits(_)
NatBits(n) == IF n = 0 THEN 0 ELSE 1 + NatBits(n \div 2)

Neg(x) == Sub(<<0, 0, 0>>, x)

\* int.bit_length(): the bits of the absolute value
BitLength(x) ==
    LET a == IF x[1] < 0 THEN Neg(x) ELSE x
    IN  IF a[1] > 0 THEN 48 + NatBits(a[1])
        ELSE IF a[2] > 0 THEN 24 + NatBits(a[2])
        ELSE NatBits(a[3])

\* 2^n as an integer of the program, 0 <= n <= 71
Pow2Table == [n \in 0..71 |-> ShiftL(PyInt(1), n)]

Pow2(n) == Pow2Table[n]

---------------------------------------------------------------------------
(* Python str: a string is the sequence of its code points; str > str is   *)
(* the lexicographic order on code points.                                 *)

Colon == <<58>>

Dash == <<45>>

\* the value of a hex digit character, -1 for any other character
HexVal(c) ==
    IF c \in 48..57 THEN c - 48
    ELSE IF c \in 65..70 THEN c - 55
    ELSE IF c \in 97..102 THEN c - 87
    ELSE -1

RECURSIVE HexToInt(_, _)
HexToInt(digits, acc) ==
    IF digits = <<>> THEN acc
    ELSE HexToInt(Tail(digits), Add(ShiftL(acc, 4), PyInt(HexVal(Head(digits)))))

RECURSIVE StrLt(_, _)
StrLt(s, t) ==
    IF t = <<>> THEN FALSE
    ELSE IF s = <<>> THEN TRUE
    ELSE IF Head(s) # Head(t) THEN Head(s) < Head(t)
    ELSE StrLt(Tail(s), Tail(t))

---------------------------------------------------------------------------
(* netaddr.strategy.eui48 / eui64 and the two built-in dialects.  These    *)
(* modules are imported by eui/__init__.py but are not among the source    *)
(* files; they are modelled from the specification (sections 3, 4.1, 6).   *)

None == 0

Versions == {48, 64}

\* module.max_int: 2^version - 1
MaxIntTable == [version \in Versions |-> Sub(Pow2(version), PyInt(1))]

max_int(version) == MaxIntTable[version]

\* module.width
width(version) == version

Dialects ==
    [mac_eui48  |-> [word_size |-> 8,  num_words |-> 6, word_fmt |-> TRUE],
     eui64_base |-> [word_size |-> 8,  num_words |-> 8, word_fmt |-> TRUE],
     mac_cisco  |-> [word_size |-> 16, num_words |-> 3, word_fmt |-> TRUE],
     no_fmt     |-> [word_size |-> 8,  num_words |-> 6, word_fmt |-> FALSE]]

max_word(dialect) == 2^(Dialects[dialect].word_size) - 1

\* the module's own word layout: bytes
default_dialect(version) == IF version = 64 THEN "eui64_base" ELSE "mac_eui48"

Ok(v) == [err |-> "ok", val |-> v]

Fail(e) == [err |-> e, val |-> <<>>]

RECURSIVE BytesToInt(_, _)
BytesToInt(s, acc) ==
    IF s = <<>> THEN acc
    ELSE IF Len(s) >= 3
    THEN BytesToInt(SubSeq(s, 4, Len(s)),
                    Add(ShiftL(acc, 8), PyInt(16 * HexVal(s[1]) + HexVal(s[2]))))
    ELSE Add(ShiftL(acc, 8), PyInt(16 * HexVal(s[1]) + HexVal(s[2])))

\* module.str_to_int: version/8 groups of two hex digits joined by one
\* separator, ':' or '-', used throughout, or the same digits with no
\* separator at all; anything else is a format error
str_to_int(version, s) ==
    LET n == version \div 8
    IN  IF /\ Len(s) = 3 * n - 1
           /\ <<s[3]>> \in {Colon, Dash}
           /\ \A i \in 1..Len(s) :
                 IF i % 3 = 0 THEN s[i] = s[3] ELSE HexVal(s[i]) >= 0
        THEN Ok(BytesToInt(s, PyInt(0)))
        ELSE IF Len(s) = 2 * n /\ \A i \in 1..Len(s) : HexVal(s[i]) >= 0
             THEN Ok(HexToInt(s, PyInt(0)))
             ELSE Fail("AddrFormatError")

\* module.int_to_words(int_val, dialect): num_words words of word_size bits,
\* most significant first; an integer wider than the layout is an index error
int_to_words(int_val, dialect) ==
    LET d == Dialects[dialect]
    IN  IF Le(PyInt(0), int_val) /\ Lt(int_val, Pow2(d.word_size * d.num_words))
        THEN Ok([i \in 1..d.num_words |->
                   ShiftR(int_val, d.word_size * (d.num_words - i))[3] % 2^d.word_size])
        ELSE Fail("IndexError")

RECURSIVE WordsValue(_, _, _)
WordsValue(words, word_size, acc) ==
    IF words = <<>> THEN acc
    ELSE WordsValue(Tail(words), word_size,
                    Add(ShiftL(acc, word_size), PyInt(Head(words))))

\* module.words_to_int(words): called without a dialect, so the module's own
\* layout applies; a word list that does not fit it is a value error
words_to_int(version, words) ==
    LET d == Dialects[default_dialect(version)]
    IN  IF /\ Len(words) = d.num_words
           /\ \A i \in 1..Len(words) : words[i] \in 0..(2^d.word_size - 1)
        THEN Ok(WordsValue(words, d.word_size, PyInt(0)))
        ELSE Fail("ValueError")

---------------------------------------------------------------------------
(* class EUI.  An object is [version, value, dialect]; an argument is      *)
(* [t, v] with t the Python type: "int" (v an integer), "str" (v a string) *)
(* or "eui" (v an EUI object).                                             *)

NoObj == [version |-> None, value |-> PyInt(0), dialect |-> "none"]

IntArg(i) == [t |-> "int", v |-> i]

StrArg(s) == [t |-> "str", v |-> s]

EUIArg(e) == [t |-> "eui", v |-> e]

\* EUI._validate_dialect: None selects the version's preset; anything else
\* needs only the attributes word_size and word_fmt
EUI_validate_dialect(version, value) ==
    IF value = "None"
    THEN Ok(IF version = 64 THEN "eui64_base" ELSE "mac_eui48")
    ELSE IF Dialects[value].word_fmt
         THEN Ok(value)
         ELSE Fail("TypeError")

\* one round of the detection loop of EUI._set_value for module m
EUI_detect(m, value) ==
    LET Parsed(r) == IF r.err = "ok" THEN Ok(r.val) ELSE Fail("AddrFormatError")
    IN  IF value.t = "str"
        THEN Parsed(str_to_int(m, value.v))
        ELSE IF value.t = "int" /\ Le(PyInt(0), value.v) /\ Le(value.v, max_int(m))
             THEN Ok(value.v)
             ELSE Fail("AddrFormatError")

\* EUI._set_value without the upper bound of its explicit-version branch
EUI_set_value_nomax(module, value) ==
    LET Second(r) == IF r.err = "ok" THEN Ok(<<64, r.val>>) ELSE Fail("AddrFormatError")
        First(r) == IF r.err = "ok" THEN Ok(<<48, r.val>>)
                    ELSE Second(EUI_detect(64, value))
        Parsed(r) == IF r.err = "ok" THEN Ok(<<module, r.val>>)
                     ELSE Fail("AddrFormatError")
    IN  IF module = None
        THEN First(EUI_detect(48, value))
        ELSE IF value.t = "str"
             THEN Parsed(str_to_int(module, value.v))
             ELSE IF Le(PyInt(0), value.v)
                  THEN Ok(<<module, value.v>>)
                  ELSE Fail("AddrFormatError")

\* EUI._set_value with self._module = module (None: detect the version, 48
\* before 64); the result's val is <<module, value>>
EUI_set_value(module, value) ==
    LET Second(r) == IF r.err = "ok" THEN Ok(<<64, r.val>>) ELSE Fail("AddrFormatError")
        First(r) == IF r.err = "ok" THEN Ok(<<48, r.val>>)
                    ELSE Second(EUI_detect(64, value))
        Parsed(r) == IF r.err = "ok" THEN Ok(<<module, r.val>>)
                     ELSE Fail("AddrFormatError")
    IN  IF module = None
        THEN First(EUI_detect(48, value))
        ELSE IF value.t = "str"
             THEN Parsed(str_to_int(module, value.v))
             ELSE IF Le(PyInt(0), value.v) /\ Le(value.v, max_int(module))
                  THEN Ok(<<module, value.v>>)
                  ELSE Fail("AddrFormatError")

\* the version choice of EUI.__init__ with the 64-bit bound in its first test
EUI_init_module_wide(addr, version) ==
    IF version # None
    THEN IF version \in {48, 64} THEN Ok(version) ELSE Fail("ValueError")
    ELSE IF addr.t = "int"
         THEN IF Le(PyInt(0), addr.v) /\ Le(addr.v, max_int(64))
              THEN Ok(48)
              ELSE IF Lt(max_int(48), addr.v) /\ Le(addr.v, max_int(64))
                   THEN Ok(64)
                   ELSE Ok(None)
         ELSE Ok(None)

\* the version choice of EUI.__init__ before the value is set
EUI_init_module(addr, version) ==
    IF version # None
    THEN IF version \in {48, 64} THEN Ok(version) ELSE Fail("ValueError")
    ELSE IF addr.t = "int"
         THEN IF Le(PyInt(0), addr.v) /\ Le(addr.v, max_int(48))
              THEN Ok(48)
              ELSE IF Lt(max_int(48), addr.v) /\ Le(addr.v, max_int(64))
                   THEN Ok(64)
                   ELSE Ok(None)
         ELSE Ok(None)

\* EUI.__init__(addr, version, dialect)
EUI_init(addr, version, dialect) ==
    LET Made(sv, d) ==
            IF d.err # "ok" THEN Fail(d.err)
            ELSE Ok([version |-> sv.val[1], value |-> sv.val[2], dialect |-> d.val])
        Valued(sv) ==
            IF sv.err # "ok" THEN Fail(sv.err)
            ELSE Made(sv, EUI_validate_dialect(sv.val[1], dialect))
        Versioned(m) ==
            IF m.err # "ok" THEN Fail(m.err)
            ELSE Valued(EUI_set_value(m.val, addr))
    IN  IF addr.t = "eui"
        THEN IF version # None /\ version # addr.v.version
             THEN Fail("ValueError")
             ELSE Ok(addr.v)
        ELSE Versioned(EUI_init_module(addr, version))

\* EUI.__setitem__ that stores the word one place further on
EUI_setitem_shifted(self, idx, value) ==
    LET Stored(nv) ==
            IF nv.err # "ok" THEN Fail(nv.err)
            ELSE Ok([self EXCEPT !.value = nv.val])
        Written(ws) ==
            IF ws.err # "ok" THEN Fail(ws.err)
            ELSE Stored(words_to_int(self.version,
                                     [ws.val EXCEPT ![((idx.n + 1) % Len(ws.val)) + 1] = value.n]))
    IN  IF idx.t = "slice" THEN Fail("NotImplementedError")
        ELSE IF idx.t # "int" THEN Fail("TypeError")
        ELSE IF ~(0 <= idx.n /\ idx.n <= Dialects[self.dialect].num_words - 1)
             THEN Fail("IndexError")
        ELSE IF value.t # "int" THEN Fail("TypeError")
        ELSE IF ~(0 <= value.n /\ value.n <= max_word(self.dialect))
             THEN Fail("IndexError")
        ELSE Written(int_to_words(self.value, self.dialect))

\* EUI.__setitem__(idx, value): idx and value are [t, n], t the Python type
\* ("int" with n the integer, "slice", "str")
EUI_setitem(self, idx, value) ==
    LET Stored(nv) ==
            IF nv.err # "ok" THEN Fail(nv.err)
            ELSE Ok([self EXCEPT !.value = nv.val])
        Written(ws) ==
            IF ws.err # "ok" THEN Fail(ws.err)
            ELSE Stored(words_to_int(self.version, [ws.val EXCEPT ![idx.n + 1] = value.n]))
    IN  IF idx.t = "slice" THEN Fail("NotImplementedError")
        ELSE IF idx.t # "int" THEN Fail("TypeError")
        ELSE IF ~(0 <= idx.n /\ idx.n <= Dialects[self.dialect].num_words - 1)
             THEN Fail("IndexError")
        ELSE IF value.t # "int" THEN Fail("TypeError")
        ELSE IF ~(0 <= value.n /\ value.n <= max_word(self.dialect))
             THEN Fail("IndexError")
        ELSE Written(int_to_words(self.value, self.dialect))

\* EUI.eui64() that joins the two halves without the pattern 0xFFFE
EUI_eui64_joined(self) ==
    LET first_three == ShiftR(self.value, 24)
        last_three == BitAnd(self.value, PyInt(16777215))
        new_value == IF self.version = 48
                     THEN BitOr(ShiftL(first_three, 40), last_three)
                     ELSE self.value
    IN  EUI_init(IntArg(new_value), 64, "None")

\* EUI.eui64()
EUI_eui64(self) ==
    LET first_three == ShiftR(self.value, 24)
        last_three == BitAnd(self.value, PyInt(16777215))
        new_value == IF self.version = 48
                     THEN BitOr(BitOr(ShiftL(first_three, 40), ShiftL(PyInt(65534), 24)),
                                last_three)
                     ELSE self.value
    IN  EUI_init(IntArg(new_value), 64, "None")

\* EUI.modified_eui64() that inverts bit 56
EUI_modified_eui64_bit56(self) ==
    LET Flipped(e) ==
            IF e.err # "ok" THEN e
            ELSE Ok([e.val EXCEPT !.value = BitXor(e.val.value, Pow2(56))])
    IN  Flipped(EUI_eui64(self))

\* EUI.modified_eui64()
EUI_modified_eui64(self) ==
    LET Flipped(e) ==
            IF e.err # "ok" THEN e
            ELSE Ok([e.val EXCEPT !.value = BitXor(e.val.value, Pow2(57))])
    IN  Flipped(EUI_eui64(self))

\* the key (version, value) of EUI.__eq__, __hash__ and the comparisons
EUI_key(e) == <<e.version, e.value>>

\* (version, value) < (version, value), Python's tuple order
KeyLt(k, l) == k[1] < l[1] \/ (k[1] = l[1] /\ Lt(k[2], l[2]))

\* EUI.__lt__ / __gt__ between two EUI objects
EUI_lt(self, other) == KeyLt(EUI_key(self), EUI_key(other))

\* a > b as Python evaluates it for arguments of type int, str or EUI:
\* EUI.__gt__, or the reflected EUI.__lt__, first coerces the other side with
\* EUI(other) and gives NotImplemented (here: a type error) when that fails
PyGt(a, b) ==
    LET Both(ea, eb) ==
            IF ea.err = "ok" /\ eb.err = "ok"
            THEN Ok(EUI_lt(eb.val, ea.val))
            ELSE Fail("TypeError")
    IN  IF a.t = "eui" \/ b.t = "eui"
        THEN Both(EUI_init(a, None, "None"), EUI_init(b, None, "None"))
        ELSE IF a.t = "int" /\ b.t = "int" THEN Ok(Lt(b.v, a.v))
        ELSE IF a.t = "str" /\ b.t = "str" THEN Ok(StrLt(b.v, a.v))
        ELSE Fail("TypeError")

---------------------------------------------------------------------------
(* iter_EUIRange and class EUIRange.  A range is [start, end, module] with *)
(* start and end EUI objects.                                              *)

NoRange == [start |-> NoObj, end |-> NoObj, module |-> None]

\* the integers of Python's range(a, stop, step), step # 0
RECURSIVE PyRange(_, _, _)
PyRange(a, stop, step) ==
    IF (step > 0 /\ Lt(a, stop)) \/ (step < 0 /\ Lt(stop, a))
    THEN <<a>> \o PyRange(Add(a, PyInt(step)), stop, step)
    ELSE <<>>

\* the objects a generator yields, or the error its first failing EUI() raises
Yield(ints) ==
    LET All(made) ==
            IF \E i \in 1..Len(ints) : made[i].err # "ok"
            THEN Fail(made[CHOOSE i \in 1..Len(ints) :
                              /\ made[i].err # "ok"
                              /\ \A j \in 1..(i - 1) : made[j].err = "ok"].err)
            ELSE Ok([i \in 1..Len(ints) |-> made[i].val])
    IN  All([i \in 1..Len(ints) |-> EUI_init(IntArg(ints[i]), None, "None")])

\* iter_EUIRange(start, end, step), start and end EUI objects
iter_EUIRange(start, end, step) ==
    LET stop == IF EUI_lt(start, end)
                THEN Add(end.value, PyInt(1))
                ELSE Sub(end.value, PyInt(1))
    IN  IF step = 0
        THEN Fail("ValueError")
        ELSE Yield(PyRange(start.value, stop, step))

\* EUIRange.__init__(start, end)
EUIRange_init(start, end) ==
    LET Built(s, e) ==
            IF e.err # "ok" THEN Fail(e.err)
            ELSE Ok([start |-> s.val, end |-> e.val, module |-> s.val.version])
        Started(s) ==
            IF s.err # "ok" THEN Fail(s.err)
            ELSE Built(s, EUI_init(end, s.val.version, "None"))
        Ordered(gt) ==
            IF gt.err # "ok" THEN Fail(gt.err)
            ELSE IF gt.val THEN Fail("AddrFormatError")
            ELSE Started(EUI_init(start, None, "None"))
    IN  Ordered(PyGt(start, end))

\* EUIRange.first, .last, .size
EUIRange_first(self) == self.start.value

EUIRange_last(self) == self.end.value

EUIRange_size(self) == Add(Sub(EUIRange_last(self), EUIRange_first(self)), PyInt(1))

\* len(r): the built-in takes what __len__ returns, self.size, only from
\* 0 to sys.maxsize = 2^63 - 1
EUIRange_len(self) ==
    IF Lt(EUIRange_size(self), PyInt(0)) THEN Fail("ValueError")
    ELSE IF Le(Pow2(63), EUIRange_size(self)) THEN Fail("OverflowError")
    ELSE Ok(EUIRange_size(self))

\* EUIRange.__iter__
EUIRange_iter(self) ==
    LET Both(start_eui, end_eui) ==
            IF start_eui.err # "ok" THEN Fail(start_eui.err)
            ELSE IF end_eui.err # "ok" THEN Fail(end_eui.err)
            ELSE iter_EUIRange(start_eui.val, end_eui.val, 1)
    IN  Both(EUI_init(IntArg(EUIRange_first(self)), self.module, "None"),
             EUI_init(IntArg(EUIRange_last(self)), self.module, "None"))

\* EUIRange.__getitem__(index) counting a negative index from end, not end + 1
EUIRange_getitem_fromlast(self, index) ==
    IF Le(Neg(EUIRange_size(self)), index) /\ Lt(index, PyInt(0))
    THEN EUI_init(IntArg(Add(EUIRange_last(self), index)), self.module, "None")
    ELSE IF Le(PyInt(0), index) /\ Le(index, Sub(EUIRange_size(self), PyInt(1)))
    THEN EUI_init(IntArg(Add(EUIRange_first(self), index)), self.module, "None")
    ELSE Fail("IndexError")

\* EUIRange.__getitem__(index), index an integer
EUIRange_getitem(self, index) ==
    IF Le(Neg(EUIRange_size(self)), index) /\ Lt(index, PyInt(0))
    THEN EUI_init(IntArg(Add(Add(EUIRange_last(self), index), PyInt(1))),
                  self.module, "None")
    ELSE IF Le(PyInt(0), index) /\ Le(index, Sub(EUIRange_size(self), PyInt(1)))
    THEN EUI_init(IntArg(Add(EUIRange_first(self), index)), self.module, "None")
    ELSE Fail("IndexError")

\* slice(from, to, step).indices(length) of Python; each of from, to, step
\* is <<n>>, or <<>> when omitted (None); a zero step or a negative length is
\* a value error
SliceIndices(from, to, step, length) ==
    LET st == IF step = <<>> THEN 1 ELSE step[1]
        lower == IF st < 0 THEN -1 ELSE 0
        upper == IF st < 0 THEN length - 1 ELSE length
        Clamp(i) == IF i < 0
                    THEN (IF i + length < lower THEN lower ELSE i + length)
                    ELSE (IF i > upper THEN upper ELSE i)
        start == IF from = <<>> THEN (IF st < 0 THEN upper ELSE lower) ELSE Clamp(from[1])
        stop == IF to = <<>> THEN (IF st < 0 THEN lower ELSE upper) ELSE Clamp(to[1])
    IN  IF st = 0 \/ length < 0 THEN Fail("ValueError") ELSE Ok(<<start, stop, st>>)

\* EUIRange.__getitem__(slice(from, to, step)) on a range of native size
\* length; the result is what iterating the returned generator yields
EUIRange_getslice(self, from, to, step) ==
    LET One(one) == IF one.err # "ok" THEN Fail(one.err) ELSE Ok(<<one.val>>)
        Both(start_eui, end_eui, st) ==
            IF start_eui.err # "ok" THEN Fail(start_eui.err)
            ELSE IF end_eui.err # "ok" THEN Fail(end_eui.err)
            ELSE iter_EUIRange(start_eui.val, end_eui.val, st)
        Sliced(start, stop, st) ==
            IF (start + st < 0) \/ (st > stop)
            THEN One(EUI_init(IntArg(EUIRange_first(self)), self.module, "None"))
            ELSE Both(EUI_init(IntArg(Add(EUIRange_first(self), PyInt(start))),
                               self.module, "None"),
                      EUI_init(IntArg(Sub(Add(EUIRange_first(self), PyInt(stop)), PyInt(st))),
                               self.module, "None"),
                      st)
        Indexed(ix) ==
            IF ix.err # "ok" THEN Fail(ix.err)
            ELSE Sliced(ix.val[1], ix.val[2], ix.val[3])
    IN  Indexed(SliceIndices(from, to, step, EUIRange_size(self)[3]))

\* EUIRange.__contains__(other), other [t, v] with t in "eui", "range",
\* "int", "str"
EUIRange_contains(self, other) ==
    LET InBounds(e) ==
            IF self.module # e.version
            THEN Ok(FALSE)
            ELSE Ok(Le(self.start.value, e.value) /\ Le(e.value, self.end.value))
        Coerced(e) == IF e.err # "ok" THEN Fail(e.err) ELSE InBounds(e.val)
    IN  IF other.t = "eui"
        THEN InBounds(other.v)
        ELSE IF other.t = "range"
        THEN Ok(/\ Le(self.start.value, other.v.start.value)
                /\ Le(other.v.end.value, self.end.value))
        ELSE Coerced(EUI_init(other, None, "None"))

\* EUIRange.key() and sort_key()
EUIRange_key(self) == <<self.module, EUIRange_first(self), EUIRange_last(self)>>

\* sort_key() with the bit length of the size itself as third component
EUIRange_sort_key_bits(self) ==
    <<self.module, self.start.value, BitLength(EUIRange_size(self))>>

EUIRange_sort_key(self) ==
    <<self.module, self.start.value, width(self.module) - BitLength(EUIRange_size(self))>>

\* Python's order on the sort keys (int, int, int)
SortKeyLt(k, l) ==
    \/ k[1] < l[1]
    \/ k[1] = l[1] /\ Lt(k[2], l[2])
    \/ k[1] = l[1] /\ k[2] = l[2] /\ k[3] < l[3]

\* EUIRange.__eq__, __lt__, __le__, __gt__
EUIRange_eq(self, other) == EUIRange_key(self) = EUIRange_key(other)

EUIRange_lt(self, other) == SortKeyLt(EUIRange_sort_key(self), EUIRange_sort_key(other))

EUIRange_le(self, other) ==
    \/ EUIRange_sort_key(self) = EUIRange_sort_key(other)
    \/ SortKeyLt(EUIRange_sort_key(self), EUIRange_sort_key(other))

EUIRange_gt(self, other) == SortKeyLt(EUIRange_sort_key(other), EUIRange_sort_key(self))

---------------------------------------------------------------------------
(* class EUISet.  _euis is a Python set of EUI objects: a hash table whose *)
(* entries keep the object and the hash it had when it was inserted.  An   *)
(* object its caller made and still refers to has an identity in heap,     *)
(* where the caller's writes show; an entry [obj, eui, hash] names it by   *)
(* obj.  An object only the set refers to cannot change, and its entry     *)
(* holds its fields in eui, with obj = 0.  hash((version, value)) is the   *)
(* key itself: distinct keys of the model have distinct hashes.            *)

MaxObjs == 1

Ids == 1..MaxObjs

NoHeap == [i \in Ids |-> NoObj]

SetNames == {"a"}

NoSets == [s \in SetNames |-> {}]

\* EUI.__hash__
EUI_hash(e) == EUI_key(e)

\* the object of an entry, as it is now
Member(e, H) == IF e.obj = 0 THEN e.eui ELSE H[e.obj]

\* the entries a lookup of an object with key k finds: same stored hash,
\* then EUI.__eq__ on the objects as they are now
PySet_lookup(S, H, k) == {e \in S : e.hash = k /\ EUI_key(Member(e, H)) = k}

\* set.add of the object x whose identity is id (0: one the caller does not
\* refer to)
PySet_add(S, H, x, id) ==
    IF PySet_lookup(S, H, EUI_hash(x)) # {}
    THEN S
    ELSE S \cup {[obj |-> id, eui |-> IF id = 0 THEN x ELSE NoObj, hash |-> EUI_hash(x)]}

\* set.add of each object of a sequence in turn
RECURSIVE PySet_addAll(_, _, _)
PySet_addAll(S, H, xs) ==
    IF xs = <<>> THEN S ELSE PySet_addAll(PySet_add(S, H, Head(xs), 0), H, Tail(xs))

\* set.discard of an object with key k: the tables it can leave (the first
\* entry found in probe order goes)
PySet_discard(S, H, k) ==
    IF PySet_lookup(S, H, k) = {}
    THEN {S}
    ELSE {S \ {e} : e \in PySet_lookup(S, H, k)}

\* set.discard of each key of a sequence in turn: the tables it can leave
RECURSIVE PySet_discardAll(_, _, _)
PySet_discardAll(Ss, H, ks) ==
    IF ks = <<>>
    THEN Ss
    ELSE PySet_discardAll(UNION {PySet_discard(S, H, Head(ks)) : S \in Ss}, H, Tail(ks))

\* EUISet.add(addr): [err, S]; addr is [t, v] with t "ref" (v the identity
\* of an EUI object of the caller), "range" (v an EUIRange) or a type EUI()
\* takes
EUISet_add(S, H, addr) ==
    LET Each(it) == IF it.err # "ok" THEN [err |-> it.err, S |-> S]
                    ELSE [err |-> "ok", S |-> PySet_addAll(S, H, it.val)]
        One(e) == IF e.err # "ok" THEN [err |-> e.err, S |-> S]
                  ELSE [err |-> "ok", S |-> PySet_add(S, H, e.val, 0)]
    IN  IF addr.t = "range" THEN Each(EUIRange_iter(addr.v))
        ELSE IF addr.t = "ref" THEN [err |-> "ok", S |-> PySet_add(S, H, H[addr.v], addr.v)]
        ELSE One(EUI_init(addr, None, "None"))

\* EUISet.remove(addr): [err, Ss], Ss the tables it can leave
EUISet_remove(S, H, addr) ==
    LET Each(it) ==
            IF it.err # "ok" THEN [err |-> it.err, Ss |-> {S}]
            ELSE [err |-> "ok",
                  Ss |-> PySet_discardAll({S}, H, [i \in 1..Len(it.val) |-> EUI_hash(it.val[i])])]
        One(e) == IF e.err # "ok" THEN [err |-> e.err, Ss |-> {S}]
                  ELSE [err |-> "ok", Ss |-> PySet_discard(S, H, EUI_hash(e.val))]
    IN  IF addr.t = "range" THEN Each(EUIRange_iter(addr.v))
        ELSE IF addr.t = "ref" THEN One(Ok(H[addr.v]))
        ELSE One(EUI_init(addr, None, "None"))

\* the orders in which sorted(self._euis) can list the entries: ascending
\* by EUI.__lt__, members that compare equal in either order
RECURSIVE EUISet_iter(_, _)
EUISet_iter(S, H) ==
    IF S = {}
    THEN {<<>>}
    ELSE UNION {{<<e>> \o q : q \in EUISet_iter(S \ {e}, H)} :
                   e \in {f \in S : \A g \in S : ~EUI_lt(Member(g, H), Member(f, H))}}

\* EUISet.update(other set): add() of each member, itself an EUI object, in
\* iteration order q
RECURSIVE EUISet_update(_, _, _)
EUISet_update(S, H, q) ==
    IF q = <<>>
    THEN S
    ELSE EUISet_update(PySet_add(S, H, Member(Head(q), H), Head(q).obj), H, Tail(q))

\* EUISet.update(iterable) for a list of arguments of add: add() of each
\* element in turn, the first failure ending the loop; [err, S]
RECURSIVE EUISet_update_list(_, _, _)
EUISet_update_list(S, H, xs) ==
    LET Added(r) == IF r.err # "ok" THEN r ELSE EUISet_update_list(r.S, H, Tail(xs))
    IN  IF xs = <<>> THEN [err |-> "ok", S |-> S]
        ELSE Added(EUISet_add(S, H, Head(xs)))

\* EUISet.size
EUISet_size(S) == Cardinality(S)

\* min(self) and max(self) under EUI.__lt__ / __gt__
EUISet_min(S, H) ==
    Member(CHOOSE e \in S : \A f \in S : ~EUI_lt(Member(f, H), Member(e, H)), H)

EUISet_max(S, H) ==
    Member(CHOOSE e \in S : \A f \in S : ~EUI_lt(Member(e, H), Member(f, H)), H)

\* EUISet.is_contiguous()
EUISet_is_contiguous(S, H) ==
    \/ S = {}
    \/ Add(Sub(EUISet_max(S, H).value, EUISet_min(S, H).value), PyInt(1))
           = PyInt(EUISet_size(S))

\* EUISet.euirange(): Ok(NoRange) stands for the None of an empty set
EUISet_euirange(S, H) ==
    IF EUISet_is_contiguous(S, H)
    THEN IF EUISet_size(S) = 0
         THEN Ok(NoRange)
         ELSE EUIRange_init(EUIArg(EUISet_min(S, H)), EUIArg(EUISet_max(S, H)))
    ELSE Fail("ValueError")

\* every order in which a table's entries can come up when it is iterated
RECURSIVE Orders(_)
Orders(S) ==
    IF S = {} THEN {<<>>}
    ELSE UNION {{<<e>> \o q : q \in Orders(S \ {e})} : e \in S}

\* the entries of S a lookup of e's object with e's stored hash finds
PySet_find(S, H, e) ==
    {f \in S : f.hash = e.hash /\ EUI_key(Member(f, H)) = EUI_key(Member(e, H))}

\* the loop of set.intersection (found = TRUE) and set.difference (found =
\* FALSE): each entry of q in turn goes to the result, with the hash it has,
\* when its lookup in so says found
RECURSIVE PySet_select(_, _, _, _, _)
PySet_select(so, H, q, found, result) ==
    IF q = <<>> THEN result
    ELSE PySet_select(so, H, Tail(q), found,
                      IF (PySet_find(so, H, Head(q)) # {}) = found
                            /\ PySet_find(result, H, Head(q)) = {}
                      THEN result \cup {Head(q)}
                      ELSE result)

\* the loop of set.difference_update and set.symmetric_difference_update:
\* each entry of q in turn is discarded from so (any one entry its lookup
\* finds), or, when toggle and not found, added; the tables it can leave
RECURSIVE PySet_discard_entries(_, _, _, _)
PySet_discard_entries(Ss, H, q, toggle) ==
    IF q = <<>> THEN Ss
    ELSE PySet_discard_entries(
             UNION {IF PySet_find(so, H, Head(q)) # {}
                    THEN {so \ {f} : f \in PySet_find(so, H, Head(q))}
                    ELSE IF toggle THEN {so \cup {Head(q)}} ELSE {so} : so \in Ss},
             H, Tail(q), toggle)

\* set.intersection, A and B distinct set objects: the smaller one is
\* iterated; the tables it can return
PySet_intersection(A, B, H) ==
    IF Cardinality(B) > Cardinality(A)
    THEN {PySet_select(B, H, q, TRUE, {}) : q \in Orders(A)}
    ELSE {PySet_select(A, H, q, TRUE, {}) : q \in Orders(B)}

\* set.difference: a copy of A less what B holds when A is much the larger,
\* else the entries of A not found in B
PySet_difference(A, B, H) ==
    IF Cardinality(A) \div 4 > Cardinality(B)
    THEN UNION {PySet_discard_entries({A}, H, q, FALSE) : q \in Orders(B)}
    ELSE {PySet_select(B, H, q, FALSE, {}) : q \in Orders(A)}

\* set.symmetric_difference, A and B distinct set objects: a copy of B in
\* which each entry of A is discarded if found and added if not
PySet_symmetric_difference(A, B, H) ==
    UNION {PySet_discard_entries({B}, H, q, TRUE) : q \in Orders(A)}

\* EUISet.union(other): a copy updated with other
EUISet_union(A, B, H) == {EUISet_update(A, H, q) : q \in EUISet_iter(B, H)}

\* EUISet.intersection(other); same tells that other is self
EUISet_intersection(A, B, H, same) == IF same THEN {A} ELSE PySet_intersection(A, B, H)

\* EUISet.difference(other)
EUISet_difference(A, B, H) == PySet_difference(A, B, H)

\* EUISet.symmetric_difference(other): the copy of other's table is a new
\* set object even when other is self
EUISet_symmetric_difference(A, B, H) == PySet_symmetric_difference(A, B, H)

\* EUISet.__eq__: set ==, equal sizes and each entry of A found in B
EUISet_eq(A, B, H) ==
    /\ Cardinality(A) = Cardinality(B)
    /\ \A e \in A : PySet_find(B, H, e) # {}

\* EUISet.is_subset(other): EUI(eui) in other._euis for each member
EUISet_is_subset(A, B, H) ==
    \A e \in A : PySet_lookup(B, H, EUI_hash(Member(e, H))) # {}

\* EUISet.__lt__: a smaller size and is_subset
EUISet_lt(A, B, H) == EUISet_size(A) < EUISet_size(B) /\ EUISet_is_subset(A, B, H)

\* EUISet.__gt__: other < self
EUISet_gt(A, B, H) == EUISet_lt(B, A, H)

\* EUISet.is_superset: other.is_subset(self)
EUISet_is_superset(A, B, H) == EUISet_is_subset(B, A, H)

---------------------------------------------------------------------------
(* class EUIPrefix.  An object is [value, separator]: the nibbles of the   *)
(* prefix in upper case and the separator of the string it was made from.  *)

NoPrefix == [value |-> <<>>, separator |-> <<>>]

\* str.upper() on the characters that occur
Upper(s) == [i \in 1..Len(s) |-> IF s[i] \in 97..122 THEN s[i] - 32 ELSE s[i]]

\* addr[2:-1:3]: every third character except the last
Separators(addr) ==
    [k \in 1..(IF Len(addr) = 0 THEN 0 ELSE (Len(addr) - 1) \div 3) |-> addr[3 * k]]

\* addr with the characters of addr[2:-1:3] deleted
Stripped(addr) ==
    LET nseps == IF Len(addr) = 0 THEN 0 ELSE (Len(addr) - 1) \div 3
    IN  [j \in 1..(Len(addr) - nseps) |->
            IF j <= 2 * nseps THEN addr[j + (j - 1) \div 2] ELSE addr[j + nseps]]

\* EUIPrefix.__init__(addr): separators[0] is read before anything else
EUIPrefix_init(addr) ==
    LET Checked(separators, addr_stripped) ==
            IF separators = <<>> THEN Fail("IndexError")
            ELSE IF /\ <<separators[1]>> \in {Colon, Dash}
                    /\ \A i \in 1..Len(separators) : separators[i] = separators[1]
                    /\ \A i \in 1..Len(addr_stripped) : HexVal(addr_stripped[i]) >= 0
                    /\ Len(addr_stripped) <= 12
                 THEN Ok([value |-> Upper(addr_stripped), separator |-> <<separators[1]>>])
                 ELSE Fail("AddrFormatError")
    IN  Checked(Separators(addr), Stripped(addr))

\* EUIPrefix.prefixlen
EUIPrefix_prefixlen(self) == Len(self.value) * 4

\* self._value followed by eui_pad[len(self._value):], eui_pad 12 times c
Padded(self, c) ==
    self.value \o [i \in 1..(IF Len(self.value) < 12 THEN 12 - Len(self.value) ELSE 0) |-> c]

\* EUIPrefix.eui: the value right-padded with '0', as an EUI
EUIPrefix_eui(self) == EUI_init(StrArg(Padded(self, 48)), None, "None")

\* EUIPrefix.first
EUIPrefix_first(self) ==
    LET AsInt(e) == IF e.err # "ok" THEN Fail(e.err) ELSE Ok(e.val.value)
    IN  AsInt(EUIPrefix_eui(self))

\* EUIPrefix.last with the pad of EUIPrefix.eui
EUIPrefix_last_as_first(self) ==
    LET AsInt(e) == IF e.err # "ok" THEN Fail(e.err) ELSE Ok(e.val.value)
    IN  AsInt(EUI_init(StrArg(Padded(self, 48)), None, "None"))

\* EUIPrefix.last: the value right-padded with 'F'
EUIPrefix_last(self) ==
    LET AsInt(e) == IF e.err # "ok" THEN Fail(e.err) ELSE Ok(e.val.value)
    IN  AsInt(EUI_init(StrArg(Padded(self, 70)), None, "None"))

\* EUIPrefix.size
EUIPrefix_size(self) ==
    LET Span(first, last) ==
            IF last.err # "ok" THEN Fail(last.err)
            ELSE IF first.err # "ok" THEN Fail(first.err)
            ELSE Ok(Add(Sub(last.val, first.val), PyInt(1)))
    IN  Span(EUIPrefix_first(self), EUIPrefix_last(self))

\* EUIPrefix.__str__: ':'.join of the value cut in pairs
EUIPrefix_str(self) ==
    LET Pair(i) == SubSeq(self.value, 2 * i - 1,
                          IF 2 * i > Len(self.value) THEN Len(self.value) ELSE 2 * i)
        Join[i \in 1..7] ==
            IF 2 * i - 1 > Len(self.value) THEN <<>>
            ELSE IF i = 1 THEN Pair(i) \o Join[i + 1]
            ELSE Colon \o Pair(i) \o Join[i + 1]
    IN  Join[1]

---------------------------------------------------------------------------
(* class IAB                                                               *)

\* IAB.IAB_EUI_VALUES = (0x0050c2, 0x40d855)
IAB_EUI_VALUES == {PyInt(20674), PyInt(4249685)}

\* split_iab_mac whose early return splits the input like the general case
IAB_split_iab_mac_split(eui_int, strict) ==
    LET user_mask == Sub(Pow2(12), PyInt(1))
        iab_mask == BitXor(Sub(Pow2(48), PyInt(1)), user_mask)
        Split(iab_bits, user_bits) ==
            IF ShiftR(iab_bits, 12) \in IAB_EUI_VALUES
            THEN IF strict /\ user_bits # PyInt(0)
                 THEN Fail("ValueError")
                 ELSE Ok(<<iab_bits, user_bits>>)
            ELSE Fail("ValueError")
    IN  IF ShiftR(eui_int, 12) \in IAB_EUI_VALUES
        THEN Ok(<<ShiftR(eui_int, 12), Sub(BitOr(eui_int, iab_mask), iab_mask)>>)
        ELSE Split(ShiftR(eui_int, 12), Sub(BitOr(eui_int, iab_mask), iab_mask))

\* IAB.split_iab_mac(eui_int, strict), eui_int an unsigned integer; the
\* result's val is the pair <<iab_bits, user_bits>>
IAB_split_iab_mac(eui_int, strict) ==
    LET user_mask == Sub(Pow2(12), PyInt(1))
        iab_mask == BitXor(Sub(Pow2(48), PyInt(1)), user_mask)
        Split(iab_bits, user_bits) ==
            IF ShiftR(iab_bits, 12) \in IAB_EUI_VALUES
            THEN IF strict /\ user_bits # PyInt(0)
                 THEN Fail("ValueError")
                 ELSE Ok(<<iab_bits, user_bits>>)
            ELSE Fail("ValueError")
    IN  IF ShiftR(eui_int, 12) \in IAB_EUI_VALUES
        THEN Ok(<<eui_int, PyInt(0)>>)
        ELSE Split(ShiftR(eui_int, 12), Sub(BitOr(eui_int, iab_mask), iab_mask))

\* int(iab.replace('-', ''), 16) for the strings tried: hex digits only
IAB_int16(iab) ==
    LET NotDash(c) == <<c>> # Dash
        Parsed(digits) ==
            IF digits = <<>> \/ \E i \in 1..Len(digits) : HexVal(digits[i]) < 0
            THEN Fail("ValueError")
            ELSE Ok(HexToInt(digits, PyInt(0)))
    IN  Parsed(SelectSeq(iab, NotDash))

\* IAB.__init__ that passes strict=False to split_iab_mac
IAB_init_lenient(iab, strict, IAB_INDEX) ==
    LET Found(sp) ==
            IF sp.err # "ok" THEN Fail(sp.err)
            ELSE IF sp.val[1] \in IAB_INDEX
                 THEN Ok([value |-> sp.val[1]])
                 ELSE Fail("NotRegisteredError")
        Converted(iv) ==
            IF iv.err # "ok" THEN Fail(iv.err)
            ELSE Found(IAB_split_iab_mac(iv.val, FALSE))
    IN  IF iab.t = "str" THEN Converted(IAB_int16(iab.v))
        ELSE IF iab.t = "int" THEN Found(IAB_split_iab_mac(iab.v, FALSE))
        ELSE Fail("TypeError")

\* IAB.__init__(iab, strict) with ieee.IAB_INDEX holding the registered
\* blocks; the object made is [value]
IAB_init(iab, strict, IAB_INDEX) ==
    LET Found(sp) ==
            IF sp.err # "ok" THEN Fail(sp.err)
            ELSE IF sp.val[1] \in IAB_INDEX
                 THEN Ok([value |-> sp.val[1]])
                 ELSE Fail("NotRegisteredError")
        Converted(iv) ==
            IF iv.err # "ok" THEN Fail(iv.err)
            ELSE Found(IAB_split_iab_mac(iv.val, strict))
    IN  IF iab.t = "str" THEN Converted(IAB_int16(iab.v))
        ELSE IF iab.t = "int" THEN Found(IAB_split_iab_mac(iab.v, strict))
        ELSE Fail("TypeError")

\* EUI.is_iab()
EUI_is_iab(self) == ShiftR(self.value, 24) \in IAB_EUI_VALUES

---------------------------------------------------------------------------
(* The IEEE registry: OUI.__init__ and IAB.__init__ look their value up in *)
(* ieee.OUI_INDEX / ieee.IAB_INDEX, which give the (offset, size) spans of *)
(* its records in oui.txt / iab.txt, open the file, and seek, read, decode *)
(* and parse each span.  The index module and the files are not among the  *)
(* source files: a file is a sequence of bytes, an index entry a sequence  *)
(* of spans.  A construction in progress is [pc, cls, value, indexed, fh,  *)
(* todo, records, err].                                                    *)

MaxSpans == 2

HexChar(d, lower) == IF d < 10 THEN 48 + d ELSE IF lower THEN 87 + d ELSE 55 + d

Hex2(b, lower) == <<HexChar(b \div 16, lower), HexChar(b % 16, lower)>>

\* the MAC string of the given bytes, e.g. 00-00-00-00-00-0a
RECURSIVE MacStr(_, _, _)
MacStr(bytes, sep, lower) ==
    IF Len(bytes) = 1
    THEN Hex2(bytes[1], lower)
    ELSE Hex2(bytes[1], lower) \o sep \o MacStr(Tail(bytes), sep, lower)

\* str.split("\n")
RECURSIVE SplitLines(_, _)
SplitLines(s, line) ==
    IF s = <<>> THEN <<line>>
    ELSE IF Head(s) = 10 THEN <<line>> \o SplitLines(Tail(s), <<>>)
    ELSE SplitLines(Tail(s), Append(line, Head(s)))

\* the characters str.strip() and str.split(None) take for whitespace
Whitespace == {9, 10, 11, 12, 13, 32}

\* str.strip()
RECURSIVE Strip(_)
Strip(s) ==
    IF s = <<>> THEN s
    ELSE IF Head(s) \in Whitespace THEN Strip(Tail(s))
    ELSE IF s[Len(s)] \in Whitespace THEN Strip(SubSeq(s, 1, Len(s) - 1))
    ELSE s

\* sub in s
Contains(s, sub) ==
    \E i \in 1..(Len(s) - Len(sub) + 1) : SubSeq(s, i, i + Len(sub) - 1) = sub

\* s.split(None, maxsplit): fields between runs of whitespace, the rest of
\* the string as last field once maxsplit splits are made
RECURSIVE SplitFields(_, _, _)
SplitFields(s, maxsplit, field) ==
    IF s = <<>> THEN IF field = <<>> THEN <<>> ELSE <<field>>
    ELSE IF field = <<>> /\ Head(s) \in Whitespace THEN SplitFields(Tail(s), maxsplit, field)
    ELSE IF maxsplit = 0 THEN <<s>>
    ELSE IF Head(s) \in Whitespace THEN <<field>> \o SplitFields(Tail(s), maxsplit - 1, <<>>)
    ELSE SplitFields(Tail(s), maxsplit, Append(field, Head(s)))

\* bytes.decode('UTF-8') on bytes below 0xE0 or above 0xF4: one-byte and
\* two-byte sequences
RECURSIVE decode(_)
decode(b) ==
    LET Rest(c, r) == IF r.err # "ok" THEN r ELSE Ok(<<c>> \o r.val)
    IN  IF b = <<>> THEN Ok(<<>>)
        ELSE IF b[1] < 128 THEN Rest(b[1], decode(Tail(b)))
        ELSE IF b[1] \in 194..223 /\ Len(b) > 1 /\ b[2] \in 128..191
        THEN Rest((b[1] - 192) * 64 + (b[2] - 128), decode(Tail(Tail(b))))
        ELSE Fail("UnicodeDecodeError")

\* fh.seek(offset) on a binary file
fh_seek(offset) == IF offset < 0 THEN Fail("OSError") ELSE Ok(offset)

\* fh.read(size) at position pos: short at the end of the file
fh_read(file, pos, size) ==
    SubSeq(file, pos + 1, IF pos + size > Len(file) THEN Len(file) ELSE pos + size)

\* "(hex)" and "(base 16)"
HexTag == <<40, 104, 101, 120, 41>>

Base16Tag == <<40, 98, 97, 115, 101, 32, 49, 54, 41>>

\* str(OUI): "%02X-%02X-%02X"
OUI_str(value) ==
    MacStr([k \in 1..3 |-> BitAnd(ShiftR(value, 8 * (3 - k)), PyInt(255))[3]], Dash, FALSE)

\* str(IAB): "%02X-%02X-%02X-%02X-%02X-00" of value << 4
IAB_str(value) ==
    MacStr([k \in 1..5 |-> BitAnd(ShiftR(ShiftL(value, 4), 8 * (5 - k)), PyInt(255))[3]],
           Dash, FALSE) \o Dash \o <<48, 48>>

\* the lines of _parse_data in turn: the organisation is the third field of
\* a "(hex)" line
RECURSIVE parse_lines(_, _, _, _)
parse_lines(lines, record, value, name) ==
    LET Line(line) ==
            IF line = <<>> THEN parse_lines(Tail(lines), record, value, name)
            ELSE IF Contains(line, HexTag)
            THEN IF Len(SplitFields(line, 2, <<>>)) < 3
                 THEN Fail("IndexError")
                 ELSE parse_lines(Tail(lines),
                                  [record EXCEPT !.idx = value,
                                                 !.org = SplitFields(line, 2, <<>>)[3],
                                                 !.name = name],
                                  value, name)
            ELSE IF Contains(line, Base16Tag)
            THEN parse_lines(Tail(lines), record, value, name)
            ELSE parse_lines(Tail(lines), [record EXCEPT !.address = Append(@, line)],
                             value, name)
    IN  IF lines = <<>> THEN Ok(record) ELSE Line(Strip(Head(lines)))

\* the record dict of OUI._parse_data and of IAB.__init__
NewRecord(offset, size) ==
    [idx |-> PyInt(0), name |-> <<>>, org |-> <<>>, address |-> <<>>,
     offset |-> offset, size |-> size]

\* OUI._parse_data / IAB._parse_data(data, offset, size)
parse_data(data, offset, size, value, name) ==
    parse_lines(SplitLines(data, <<>>), NewRecord(offset, size), value, name)

\* fh.seek(offset); data = fh.read(size).decode('UTF-8');
\* self._parse_data(data, offset, size)
read_span(file, span, value, name) ==
    LET Decoded(data) ==
            IF data.err # "ok" THEN Fail(data.err)
            ELSE parse_data(data.val, span[1], span[2], value, name)
        Sought(pos) ==
            IF pos.err # "ok" THEN Fail(pos.err)
            ELSE Decoded(decode(fh_read(file, pos.val, span[2])))
    IN  Sought(fh_seek(span[1]))

\* the value OUI.__init__(oui) takes before the lookup
OUI_value(oui) ==
    IF oui.t = "str" THEN IAB_int16(oui.v)
    ELSE IF oui.t = "int"
    THEN IF Le(PyInt(0), oui.v) /\ Le(oui.v, PyInt(16777215))
         THEN Ok(oui.v)
         ELSE Fail("ValueError")
    ELSE Fail("TypeError")

NoLookup ==
    [pc |-> "idle", cls |-> "none", value |-> PyInt(0), indexed |-> FALSE,
     fh |-> "none", todo |-> <<>>, records |-> <<>>, err |-> "ok"]

\* the constructor up to the index test: it raises, or it opens the file
\* with the spans of the index entry to go through
Lookup_begin(cls, made, entry) ==
    IF made.err # "ok"
    THEN [NoLookup EXCEPT !.pc = "raised", !.cls = cls, !.err = made.err]
    ELSE IF entry = <<>>
    THEN [NoLookup EXCEPT !.pc = "raised", !.cls = cls, !.value = made.val,
                          !.err = "NotRegisteredError"]
    ELSE [NoLookup EXCEPT !.pc = "open", !.cls = cls, !.value = made.val,
                          !.indexed = TRUE, !.fh = "open",
                          !.todo = IF cls = "IAB" THEN <<entry[1]>> ELSE entry]

\* one span of the loop: an exception leaves the constructor at once
Lookup_span(self, file) ==
    LET Parsed(r) ==
            IF r.err # "ok"
            THEN [self EXCEPT !.pc = "raised", !.err = r.err]
            ELSE [self EXCEPT !.todo = Tail(@), !.records = Append(@, r.val)]
    IN  Parsed(read_span(file, Head(self.todo), self.value,
                         IF self.cls = "IAB" THEN IAB_str(self.value)
                         ELSE OUI_str(self.value)))

\* fh.close() after the last span, and the constructor returns
Lookup_close(self) == [self EXCEPT !.pc = "returned", !.fh = "closed"]

---------------------------------------------------------------------------
(* Inputs the operations are tried on.                                     *)

MaxSmall == 2

Mac48(last, sep, lower) == MacStr(<<0, 0, 0, 0, 0, last>>, sep, lower)

Mac64(last, sep, lower) == MacStr(<<0, 0, 0, 0, 0, 0, 0, last>>, sep, lower)

\* 'GA:AA:AA:AA:AA:AA', not a MAC address (test_eui_ranges.py)
BadStr == [MacStr(<<170, 170, 170, 170, 170, 170>>, Colon, FALSE) EXCEPT ![1] = 71]

\* integers around every boundary the code tests
IntInputs ==
    {PyInt(n) : n \in -1..MaxSmall}
        \cup {max_int(48), Pow2(48), max_int(64), Pow2(64)}
        \cup {Add(ShiftL(PyInt(20674), 24), PyInt(1)), ShiftL(PyInt(20674), 40)}

AddrInputs ==
    {IntArg(i) : i \in IntInputs}
        \cup {StrArg(Mac48(10, Colon, FALSE)), StrArg(Mac64(11, Dash, TRUE)), StrArg(BadStr)}

VersionInputs == {None, 48, 64, 32}

DialectInputs == {"None", "mac_eui48", "eui64_base", "mac_cisco", "no_fmt"}

IndexInputs ==
    {[t |-> "int", n |-> n] : n \in {-1, 0, 5, 7, 8}}
        \cup {[t |-> "slice", n |-> 0], [t |-> "str", n |-> 0]}

WordInputs ==
    {[t |-> "int", n |-> n] : n \in {-1, 0, 255, 256}} \cup {[t |-> "str", n |-> 0]}

Outcome(op, arg, r) ==
    [op |-> op, arg |-> arg, err |-> r.err, val |-> IF r.err = "ok" THEN r.val ELSE NoObj]

NoOut == [op |-> "none", arg |-> <<>>, err |-> "ok", val |-> NoObj]

---------------------------------------------------------------------------
(* SpecEUI: one EUI object, constructed and then mutated by its caller.    *)

InitEUI ==
    /\ eui = NoObj
    /\ rng = NoRange
    /\ heap = NoHeap
    /\ pfx = NoPrefix
    /\ reg = NoLookup
    /\ sets = NoSets
    /\ out = NoOut

\* e = EUI(addr, version, dialect)
Construct ==
    /\ eui = NoObj
    /\ UNCHANGED <<rng, heap, sets, pfx, reg>>
    /\ \E addr \in AddrInputs, version \in VersionInputs, dialect \in DialectInputs :
          \E r \in {EUI_init(addr, version, dialect)} :
              /\ eui' = IF r.err = "ok" THEN r.val ELSE NoObj
              /\ out' = Outcome("init", <<addr, version, dialect>>, [r EXCEPT !.val = NoObj])

\* EUI(e, version): copy construction
CopyConstruct ==
    /\ eui # NoObj
    /\ UNCHANGED <<rng, heap, sets, pfx, reg>>
    /\ \E version \in VersionInputs :
          /\ out' = Outcome("copy", version, EUI_init(EUIArg(eui), version, "None"))
          /\ UNCHANGED eui

\* e.value = addr
SetValue ==
    /\ eui # NoObj
    /\ UNCHANGED <<rng, heap, sets, pfx, reg>>
    /\ \E addr \in AddrInputs :
          \E r \in {EUI_set_value(eui.version, addr)} :
              /\ eui' = IF r.err = "ok" THEN [eui EXCEPT !.value = r.val[2]] ELSE eui
              /\ out' = Outcome("set_value", addr, [r EXCEPT !.val = NoObj])

\* e[idx] = value
SetItem ==
    /\ eui # NoObj
    /\ UNCHANGED <<rng, heap, sets, pfx, reg>>
    /\ \E idx \in IndexInputs, value \in WordInputs :
          \E r \in {EUI_setitem(eui, idx, value)} :
              /\ eui' = IF r.err = "ok" THEN r.val ELSE eui
              /\ out' = Outcome("setitem", <<idx, value>>, [r EXCEPT !.val = NoObj])

\* e.dialect = dialect
SetDialect ==
    /\ eui # NoObj
    /\ UNCHANGED <<rng, heap, sets, pfx, reg>>
    /\ \E dialect \in DialectInputs :
          \E r \in {EUI_validate_dialect(eui.version, dialect)} :
              /\ eui' = IF r.err = "ok" THEN [eui EXCEPT !.dialect = r.val] ELSE eui
              /\ out' = Outcome("set_dialect", dialect, [r EXCEPT !.val = NoObj])

\* e.eui64()
Eui64 ==
    /\ eui # NoObj
    /\ UNCHANGED <<rng, heap, sets, pfx, reg>>
    /\ out' = Outcome("eui64", <<>>, EUI_eui64(eui))
    /\ UNCHANGED eui

\* e.modified_eui64()
ModifiedEui64 ==
    /\ eui # NoObj
    /\ UNCHANGED <<rng, heap, sets, pfx, reg>>
    /\ out' = Outcome("modified_eui64", <<>>, EUI_modified_eui64(eui))
    /\ UNCHANGED eui

\* e.is_iab()
IsIab ==
    /\ eui # NoObj
    /\ UNCHANGED <<rng, heap, sets, pfx, reg>>
    /\ out' = Outcome("is_iab", <<>>, Ok(EUI_is_iab(eui)))
    /\ UNCHANGED eui

NextEUI ==
    \/ IsIab
    \/ Construct
    \/ CopyConstruct
    \/ SetValue
    \/ SetItem
    \/ SetDialect
    \/ Eui64
    \/ ModifiedEui64

SpecEUI == InitEUI /\ [][NextEUI]_vars

---------------------------------------------------------------------------
(* Claims about EUI.                                                       *)

\* a value of the version's width
InWidth(e) ==
    /\ e.version \in {48, 64}
    /\ Le(PyInt(0), e.value)
    /\ Lt(e.value, Pow2(e.version))

\* the object under mutation and every object derived from it are in width;
\* a copy keeps the version and a copy asking for another version fails
C1_State ==
    /\ eui # NoObj => InWidth(eui)
    /\ (out.op \in {"copy", "eui64", "modified_eui64"} /\ out.val # NoObj)
           => InWidth(out.val)
    /\ out.op = "copy" =>
          /\ out.err = "ok" => out.val.version = eui.version
          /\ out.arg \notin {None, eui.version} => out.err = "ValueError"

\* no operation changes the version of a constructed object
C1_Step == eui # NoObj => eui'.version = eui.version

\* C1: every EUI object, the one under mutation and every object derived
\* from it (a copy, eui64(), modified_eui64()), has 0 <= value <=
\* 2^version - 1 after any sequence of value assignments, word writes and
\* dialect assignments; no step changes the version fixed at construction,
\* and a copy construction asking for another version fails.
C1_ValueInWidthVersionFixed == [](C1_State) /\ [][C1_Step]_vars

\* a word write went through on a 48-bit object holding the largest value,
\* after an out-of-width value assignment could have been refused
C1_Witness ==
    /\ eui.version = 48
    /\ eui.value = max_int(48)
    /\ out.op = "setitem"
    /\ out.err = "ok"

\* C12: e.is_iab() is true iff the top 24 bits of e's version-width value,
\* value >> (version - 24), are one of the two IAB values.
C12_IsIabTestsTop24Bits ==
    out.op = "is_iab" =>
        out.val = (ShiftR(eui.value, eui.version - 24) \in IAB_EUI_VALUES)

\* top24 * 2^40 + 0xFFFE * 2^24 + bottom24 of a 48-bit value, limb by limb
Promoted(v) == <<v[2] \div 256, (v[2] % 256) * 65536 + 65534, v[3]>>

\* what e.eui64() returned for the object e
C13_State ==
    out.op = "eui64" =>
        /\ out.err = "ok"
        /\ out.val.version = 64
        /\ eui.version = 48 => out.val.value = Promoted(eui.value)
        /\ eui.version = 64 => out.val.value = eui.value
        /\ \A again \in {EUI_eui64(out.val)} :
              again.err = "ok" /\ again.val.value = out.val.value

\* e.eui64() leaves e as it was
C13_Step == out'.op = "eui64" => eui' = eui

\* C13: e.eui64() is a new 64-bit EUI whose value is
\* ((value >> 24) << 40) | 0xFFFE000000 | (value & 0xFFFFFF) for a 48-bit e
\* and e's value for a 64-bit e; promoting the result again gives the same
\* value, and e is unchanged.
C13_Eui64InsertsFFFE == [](C13_State) /\ [][C13_Step]_vars

\* a 48-bit address with both halves non-zero was promoted
C13_Witness ==
    /\ out.op = "eui64"
    /\ out.err = "ok"
    /\ eui.version = 48
    /\ eui.value[2] > 255
    /\ eui.value[3] > 0

\* v with bit 57 inverted: bit 9 of the limb holding bits 48 and up
Bit57Inverted(v) ==
    [v EXCEPT ![1] = IF (v[1] \div 512) % 2 = 1 THEN v[1] - 512 ELSE v[1] + 512]

\* what e.modified_eui64() returned for the object e
C14_State ==
    out.op = "modified_eui64" =>
        /\ out.err = "ok"
        /\ out.val.version = 64
        /\ InWidth(out.val)
        /\ \A plain \in {EUI_eui64(eui)} :
              plain.err = "ok" /\ out.val.value = Bit57Inverted(plain.val.value)

\* e.modified_eui64() leaves e as it was
C14_Step == out'.op = "modified_eui64" => eui' = eui

\* C14: e.modified_eui64() is a 64-bit EUI whose value is that of e.eui64()
\* with bit 57 inverted and every other bit as it was; it stays within 64
\* bits and e is unchanged.
C14_ModifiedInvertsBit57 == [](C14_State) /\ [][C14_Step]_vars

\* bit 57 was cleared in the modified form of ff-ff-ff-ff-ff-ff-ff-ff
C14_Witness ==
    /\ out.op = "modified_eui64"
    /\ out.err = "ok"
    /\ eui.value = max_int(64)
    /\ out.val.value = <<65023, 16777215, 16777215>>

\* the object EUI(n, version) made is of version v and has value n
MadeFrom(n, v) == out.err = "ok" /\ eui.version = v /\ eui.value = n

\* C15: EUI(n) has version 48 when 0 <= n <= 2^48 - 1 and version 64 when
\* 2^48 - 1 < n <= 2^64 - 1; EUI(n, version=v) with v 48 or 64 succeeds iff
\* 0 <= n <= 2^v - 1 and is otherwise a format error that makes no object.
C15_VersionByMagnitude ==
    (out.op = "init" /\ out.arg[1].t = "int" /\ out.arg[3] = "None") =>
        \A n \in {out.arg[1].v}, v \in {out.arg[2]} :
            /\ (v = None /\ Le(PyInt(0), n) /\ Lt(n, Pow2(48))) => MadeFrom(n, 48)
            /\ (v = None /\ Le(Pow2(48), n) /\ Lt(n, Pow2(64))) => MadeFrom(n, 64)
            /\ v \in {48, 64} =>
                  IF Le(PyInt(0), n) /\ Lt(n, Pow2(v))
                  THEN MadeFrom(n, v)
                  ELSE out.err = "AddrFormatError" /\ eui = NoObj

\* 2^48 given without a version became a 64-bit EUI
C15_Witness ==
    /\ out.op = "init"
    /\ out.arg = <<IntArg(Pow2(48)), None, "None">>
    /\ eui.version = 64

\* the word layout of dialect d covers exactly version bits
Fits(d, version) == Dialects[d].word_size * Dialects[d].num_words = version

\* C16: every EUI made or given a dialect has a dialect with
\* word_size * num_words = version, and a construction or dialect assignment
\* naming a dialect of another layout is rejected.
C16_DialectFitsVersion ==
    /\ eui # NoObj => Fits(eui.dialect, eui.version)
    /\ (out.op = "init" /\ out.arg[3] # "None" /\ out.arg[2] \in {48, 64}
            /\ ~Fits(out.arg[3], out.arg[2])) => out.err # "ok"
    /\ (out.op = "set_dialect" /\ out.arg # "None" /\ ~Fits(out.arg, eui.version))
           => out.err # "ok"

\* the index is an integer within the words of the dialect
IndexInRange(self, idx) ==
    idx.t = "int" /\ 0 <= idx.n /\ idx.n <= Dialects[self.dialect].num_words - 1

\* a word write e[idx] = value: the error of each kind of bad argument, no
\* change on failure, and on success a change of word idx alone
C30_WordWrite(idx, value) ==
    /\ idx.t = "slice" => out'.err = "NotImplementedError"
    /\ idx.t = "str" => out'.err = "TypeError"
    /\ (idx.t = "int" /\ ~IndexInRange(eui, idx)) => out'.err = "IndexError"
    /\ (IndexInRange(eui, idx) /\ value.t # "int") => out'.err = "TypeError"
    /\ (IndexInRange(eui, idx) /\ value.t = "int"
            /\ ~(0 <= value.n /\ value.n <= max_word(eui.dialect)))
           => out'.err = "IndexError"
    /\ out'.err # "ok" => eui' = eui
    /\ out'.err = "ok" =>
           /\ eui'.version = eui.version
           /\ eui'.dialect = eui.dialect
           /\ int_to_words(eui'.value, eui.dialect).val
                  = [int_to_words(eui.value, eui.dialect).val EXCEPT ![idx.n + 1] = value.n]

\* a value assignment e.value = addr: an integer outside the width is a
\* format error, and no failure changes the object
C30_Assign(addr) ==
    /\ (addr.t = "int" /\ ~(Le(PyInt(0), addr.v) /\ Le(addr.v, max_int(eui.version))))
           => out'.err = "AddrFormatError"
    /\ out'.err # "ok" => eui' = eui
    /\ eui'.version = eui.version /\ eui'.dialect = eui.dialect

C30_Step ==
    /\ out'.op = "setitem" => C30_WordWrite(out'.arg[1], out'.arg[2])
    /\ out'.op = "set_value" => C30_Assign(out'.arg)

\* C30: a failing EUI mutation leaves the EUI unchanged: a word write with a
\* slice index (not-implemented failure), a non-integer index or value (type
\* error), an index outside [0, num_words - 1] or a value outside
\* [0, max_word] (index error), and a value assignment outside the version's
\* width (format error) leave value, version and dialect as before; a
\* successful word write e[i] = w changes only word i.
C30_FailedMutationChangesNothing == [][C30_Step]_vars

\* the word write e[0] = 256 failed on an object whose last word is 255
C30_Witness ==
    /\ out.op = "setitem"
    /\ out.err = "IndexError"
    /\ out.arg[1].n = 0
    /\ out.arg[2].n = 256
    /\ eui.value = PyInt(255)

---------------------------------------------------------------------------
(* SpecRange: an EUIRange is constructed from two endpoints and then       *)
(* queried once: iterated, indexed, sliced, tested for membership or       *)
(* compared with another range.                                            *)

MaxLen == MaxSmall + 2

\* the EUI object EUI(n, version=v)
Obj(v, n) == EUI_init(IntArg(n), v, "None").val

EUIEnds ==
    {EUIArg(Obj(v, PyInt(n))) : v \in Versions, n \in 0..(MaxSmall + 1)}
        \cup {EUIArg(Obj(v, max_int(v))) : v \in Versions}

StrEnds ==
    {StrArg(Mac48(n, sep, lower)) : n \in {10, 11}, sep \in {Colon, Dash}, lower \in BOOLEAN}
        \cup {StrArg(BadStr)}

IntEnds ==
    {IntArg(PyInt(n)) : n \in -1..(MaxSmall + 1)}
        \cup {IntArg(i) : i \in {max_int(48), Pow2(48), max_int(64), Pow2(64)}}

RangeEnds == IntEnds \cup EUIEnds \cup StrEnds

\* the ranges a query compares with: every range two EUI endpoints build
OtherRanges ==
    {EUIRange_init(p[1], p[2]).val :
        p \in {q \in EUIEnds \X EUIEnds : EUIRange_init(q[1], q[2]).err = "ok"}}

RangeArg(r) == [t |-> "range", v |-> r]

ContainsInputs == RangeEnds \cup {RangeArg(r) : r \in OtherRanges}

SliceBounds == {<<>>} \cup {<<n>> : n \in (-MaxLen)..MaxLen}

SliceSteps == {<<>>} \cup {<<n>> : n \in -2..2}

\* the range is short enough to enumerate
Short(r) == Le(PyInt(-MaxLen), EUIRange_size(r)) /\ Le(EUIRange_size(r), PyInt(MaxLen))

InitRange ==
    /\ eui = NoObj
    /\ rng = NoRange
    /\ heap = NoHeap
    /\ pfx = NoPrefix
    /\ reg = NoLookup
    /\ sets = NoSets
    /\ out = NoOut

\* r = EUIRange(start, end)
RangeConstruct ==
    /\ out = NoOut
    /\ UNCHANGED <<eui, heap, sets, pfx, reg>>
    /\ \E start \in RangeEnds, end \in RangeEnds :
          \E r \in {EUIRange_init(start, end)} :
              /\ rng' = IF r.err = "ok" THEN r.val ELSE NoRange
              /\ out' = Outcome("range_init", <<start, end>>, r)

Fresh == rng # NoRange /\ out.op = "range_init"

\* list(r)
RangeIter ==
    /\ Fresh
    /\ Short(rng)
    /\ UNCHANGED <<eui, rng, heap, sets, pfx, reg>>
    /\ out' = Outcome("iter", <<>>, EUIRange_iter(rng))

\* r[index]
RangeGetItem ==
    /\ Fresh
    /\ UNCHANGED <<eui, rng, heap, sets, pfx, reg>>
    /\ \E index \in (-(MaxLen + 1))..(MaxLen + 1) :
          out' = Outcome("getitem", index, EUIRange_getitem(rng, PyInt(index)))

\* list(r[from:to:step])
RangeGetSlice ==
    /\ Fresh
    /\ Short(rng)
    /\ UNCHANGED <<eui, rng, heap, sets, pfx, reg>>
    /\ \E from \in SliceBounds, to \in SliceBounds, step \in SliceSteps :
          out' = Outcome("getslice", <<from, to, step>>,
                         EUIRange_getslice(rng, from, to, step))

\* other in r
RangeContains ==
    /\ Fresh
    /\ UNCHANGED <<eui, rng, heap, sets, pfx, reg>>
    /\ \E other \in ContainsInputs :
          out' = Outcome("contains", other, EUIRange_contains(rng, other))

\* r == other, r < other, r <= other, r > other
RangeCompare ==
    /\ Fresh
    /\ UNCHANGED <<eui, rng, heap, sets, pfx, reg>>
    /\ \E other \in OtherRanges :
          out' = [op |-> "compare", arg |-> other, err |-> "ok",
                  val |-> [eq |-> EUIRange_eq(rng, other),
                           lt |-> EUIRange_lt(rng, other),
                           le |-> EUIRange_le(rng, other),
                           gt |-> EUIRange_gt(rng, other)]]

\* r.size and len(r)
RangeLen ==
    /\ Fresh
    /\ UNCHANGED <<eui, rng, heap, sets, pfx, reg>>
    /\ \E l \in {EUIRange_len(rng)} :
          out' = [op |-> "len", arg |-> <<>>, err |-> l.err,
                  val |-> [size |-> EUIRange_size(rng),
                           len |-> IF l.err = "ok" THEN l.val ELSE PyInt(0)]]

NextRange ==
    \/ RangeConstruct
    \/ RangeLen
    \/ RangeIter
    \/ RangeGetItem
    \/ RangeGetSlice
    \/ RangeContains
    \/ RangeCompare

SpecRange == InitRange /\ [][NextRange]_vars

---------------------------------------------------------------------------
(* SpecSet: an EUISet and the EUI objects its caller holds.                *)
(* The caller makes EUI objects, passes them, integers and ranges to the   *)
(* sets' methods, and writes to the objects it made and added.             *)

\* the ranges given to add, remove and update: those below MaxSmall
SetRanges == {r \in OtherRanges : Lt(r.end.value, PyInt(MaxSmall))}

\* the references the caller holds
Refs == {[t |-> "ref", v |-> i] : i \in {j \in Ids : heap[j] # NoObj}}

\* the objects the caller has added to a set
AddedRefs == {i \in Ids : \E s \in SetNames : \E e \in sets[s] : e.obj = i}

AddInputs ==
    Refs \cup {IntArg(PyInt(n)) : n \in 0..MaxSmall}
         \cup {StrArg(BadStr), StrArg(Mac64(0, Dash, FALSE))}
         \cup {RangeArg(r) : r \in SetRanges}

SetOutcome(op, arg, err) == [op |-> op, arg |-> arg, err |-> err, val |-> NoObj]

InitSet ==
    /\ eui = NoObj
    /\ rng = NoRange
    /\ heap = NoHeap
    /\ pfx = NoPrefix
    /\ reg = NoLookup
    /\ sets = NoSets
    /\ out = NoOut

\* x = EUI(n), kept by the caller
NewEUI ==
    /\ UNCHANGED <<eui, rng, sets, pfx, reg>>
    /\ \E n \in 0..MaxSmall :
          \E i \in Ids :
              /\ heap[i] = NoObj
              /\ \A j \in 1..(i - 1) : heap[j] # NoObj
              /\ heap' = [heap EXCEPT ![i] = Obj(None, PyInt(n))]
              /\ out' = SetOutcome("new", <<>>, "ok")

\* s.add(addr); the outcome keeps the range an empty set was given
SetAdd ==
    /\ UNCHANGED <<eui, rng, heap, pfx, reg>>
    /\ \E s \in SetNames, addr \in AddInputs :
          \E r \in {EUISet_add(sets[s], heap, addr)} :
              /\ sets' = [sets EXCEPT ![s] = r.S]
              /\ out' = SetOutcome("add",
                                   IF addr.t = "range" /\ sets[s] = {}
                                   THEN <<s, addr.v>>
                                   ELSE <<>>,
                                   r.err)

\* s.remove(addr)
SetRemove ==
    /\ UNCHANGED <<eui, rng, heap, pfx, reg>>
    /\ \E s \in SetNames, addr \in AddInputs :
          \E r \in {EUISet_remove(sets[s], heap, addr)} :
              \E S \in r.Ss :
                  /\ sets' = [sets EXCEPT ![s] = S]
                  /\ out' = SetOutcome("remove", <<>>, r.err)

\* s.pop(): any member goes; a key error on an empty set
SetPop ==
    /\ UNCHANGED <<eui, rng, heap, pfx, reg>>
    /\ \E s \in SetNames :
          IF sets[s] = {}
          THEN /\ UNCHANGED sets
               /\ out' = SetOutcome("pop", <<>>, "KeyError")
          ELSE \E e \in sets[s] :
                  /\ sets' = [sets EXCEPT ![s] = @ \ {e}]
                  /\ out' = SetOutcome("pop", <<>>, "ok")

\* EUISet.copy(): the entries go over as they are
EUISet_copy(S) == S

\* t = s.copy(), the caller going on with the copy
SetCopy ==
    /\ UNCHANGED <<eui, rng, heap, pfx, reg>>
    /\ \E s \in SetNames, t \in SetNames :
          /\ sets' = [sets EXCEPT ![t] = EUISet_copy(sets[s])]
          /\ out' = SetOutcome("copy", <<>>, "ok")

\* s.update(t.copy()) for a set t, and s.update(r) for a range r
SetUpdate ==
    /\ UNCHANGED <<eui, rng, heap, pfx, reg>>
    /\ \/ \E s \in SetNames, t \in SetNames :
             \E q \in EUISet_iter(EUISet_copy(sets[t]), heap) :
                 /\ sets' = [sets EXCEPT ![s] = EUISet_update(sets[s], heap, q)]
                 /\ out' = SetOutcome("update", <<>>, "ok")
       \/ \E s \in SetNames, addr \in {RangeArg(r) : r \in SetRanges} :
             \E r \in {EUISet_add(sets[s], heap, addr)} :
                 /\ sets' = [sets EXCEPT ![s] = r.S]
                 /\ out' = SetOutcome("update", <<>>, r.err)

\* the lists given to update: one or two integers or unparsable strings
ListInputs ==
    UNION {[1..n -> {IntArg(PyInt(k)) : k \in 0..MaxSmall} \cup {StrArg(BadStr)}] :
              n \in 1..2}

\* s.update([x, ...])
SetUpdateList ==
    /\ UNCHANGED <<eui, rng, heap, pfx, reg>>
    /\ \E s \in SetNames, xs \in ListInputs :
          \E r \in {EUISet_update_list(sets[s], heap, xs)} :
              /\ sets' = [sets EXCEPT ![s] = r.S]
              /\ out' = SetOutcome("update_list", <<>>, r.err)

\* s.clear()
SetClear ==
    /\ UNCHANGED <<eui, rng, heap, pfx, reg>>
    /\ \E s \in SetNames :
          /\ sets' = [sets EXCEPT ![s] = {}]
          /\ out' = SetOutcome("clear", <<>>, "ok")

\* x[last word] = w on an object the caller made and added
WriteWord ==
    /\ UNCHANGED <<eui, rng, sets, pfx, reg>>
    /\ \E i \in AddedRefs, w \in 0..MaxSmall :
          \E r \in {EUI_setitem(heap[i],
                                [t |-> "int", n |-> Dialects[heap[i].dialect].num_words - 1],
                                [t |-> "int", n |-> w])} :
              /\ heap' = [heap EXCEPT ![i] = IF r.err = "ok" THEN r.val ELSE @]
              /\ out' = SetOutcome("setitem", <<>>, r.err)

\* x.value = n on an object the caller made and added
AssignValue ==
    /\ UNCHANGED <<eui, rng, sets, pfx, reg>>
    /\ \E i \in AddedRefs, n \in 0..MaxSmall :
          \E r \in {EUI_set_value(heap[i].version, IntArg(PyInt(n)))} :
              /\ heap' = [heap EXCEPT ![i].value = IF r.err = "ok" THEN r.val[2] ELSE @]
              /\ out' = SetOutcome("set_value", <<>>, r.err)

\* s.is_contiguous() and s.euirange()
SetEuirange ==
    /\ UNCHANGED <<eui, rng, heap, sets, pfx, reg>>
    /\ \E s \in SetNames :
          \E r \in {EUISet_euirange(sets[s], heap)} :
              out' = [op |-> "euirange", arg |-> <<>>, err |-> r.err,
                      val |-> <<EUISet_is_contiguous(sets[s], heap), r.val>>]

\* list(s): the members in the order __iter__ gives them
SetIter ==
    /\ UNCHANGED <<eui, rng, heap, sets, pfx, reg>>
    /\ \E s \in SetNames :
          \E q \in EUISet_iter(sets[s], heap) :
              out' = [op |-> "iter", arg |-> <<s>>, err |-> "ok",
                      val |-> [i \in 1..Len(q) |-> Member(q[i], heap)]]

NextSet ==
    \/ NewEUI
    \/ SetAdd
    \/ SetRemove
    \/ SetPop
    \/ SetCopy
    \/ SetUpdate
    \/ SetUpdateList
    \/ SetClear
    \/ WriteWord
    \/ AssignValue
    \/ SetEuirange
    \/ SetIter

SpecSet == InitSet /\ [][NextSet]_vars

---------------------------------------------------------------------------
(* SpecAlgebra: two EUISets a and b are built, the caller writing to the   *)
(* object it added; then r = x.union(y), x.intersection(y), x.difference(y)*)
(* or x.symmetric_difference(y) for x, y among a, b, and r is mutated.     *)

AlgNames == {"a", "b", "r"}

Operands == {"a", "b"}

AlgInputs == Refs \cup {IntArg(PyInt(n)) : n \in 0..1}

AlgOps == {"union", "intersection", "difference", "symmetric_difference"}

\* no result has been taken yet
Building ==
    out.op \notin AlgOps \cup {"is_subset", "compare", "result_add", "result_pop",
                               "copy", "copy_add", "copy_remove"}

InitAlgebra ==
    /\ eui = NoObj
    /\ rng = NoRange
    /\ pfx = NoPrefix
    /\ reg = NoLookup
    /\ heap = NoHeap
    /\ sets = [n \in AlgNames |-> {}]
    /\ out = NoOut

\* a.add(addr) with the caller's object or an integer, b.add(addr) with an
\* integer
AlgAdd ==
    /\ Building
    /\ UNCHANGED <<eui, rng, heap, pfx, reg>>
    /\ \E s \in Operands, addr \in AlgInputs :
          /\ s = "b" => addr.t = "int"
          /\ \E r \in {EUISet_add(sets[s], heap, addr)} :
                /\ sets' = [sets EXCEPT ![s] = r.S]
                /\ out' = SetOutcome("add", <<>>, r.err)

\* r = x.union(y)
SetUnion ==
    /\ Building
    /\ UNCHANGED <<eui, rng, heap, pfx, reg>>
    /\ \E x \in Operands, y \in Operands :
          \E res \in EUISet_union(sets[x], sets[y], heap) :
              /\ sets' = [sets EXCEPT !["r"] = res]
              /\ out' = SetOutcome("union", <<x, y>>, "ok")

\* r = x.intersection(y)
SetIntersection ==
    /\ Building
    /\ UNCHANGED <<eui, rng, heap, pfx, reg>>
    /\ \E x \in Operands, y \in Operands :
          \E res \in EUISet_intersection(sets[x], sets[y], heap, x = y) :
              /\ sets' = [sets EXCEPT !["r"] = res]
              /\ out' = SetOutcome("intersection", <<x, y>>, "ok")

\* r = x.difference(y)
SetDifference ==
    /\ Building
    /\ UNCHANGED <<eui, rng, heap, pfx, reg>>
    /\ \E x \in Operands, y \in Operands :
          \E res \in EUISet_difference(sets[x], sets[y], heap) :
              /\ sets' = [sets EXCEPT !["r"] = res]
              /\ out' = SetOutcome("difference", <<x, y>>, "ok")

\* r = x.symmetric_difference(y)
SetSymmetricDifference ==
    /\ Building
    /\ UNCHANGED <<eui, rng, heap, pfx, reg>>
    /\ \E x \in Operands, y \in Operands :
          \E res \in EUISet_symmetric_difference(sets[x], sets[y], heap) :
              /\ sets' = [sets EXCEPT !["r"] = res]
              /\ out' = SetOutcome("symmetric_difference", <<x, y>>, "ok")

\* x.is_subset(y)
SetIsSubset ==
    /\ Building
    /\ UNCHANGED <<eui, rng, heap, sets, pfx, reg>>
    /\ \E x \in Operands, y \in Operands :
          out' = [op |-> "is_subset", arg |-> <<x, y>>, err |-> "ok",
                  val |-> EUISet_is_subset(sets[x], sets[y], heap)]

\* x.is_subset(y), x.is_superset(y), x < y, x > y and x == y
SetCompare ==
    /\ Building
    /\ UNCHANGED <<eui, rng, heap, sets, pfx, reg>>
    /\ \E x \in Operands, y \in Operands :
          out' = [op |-> "compare", arg |-> <<x, y>>, err |-> "ok",
                  val |-> [is_subset |-> EUISet_is_subset(sets[x], sets[y], heap),
                           is_superset |-> EUISet_is_superset(sets[x], sets[y], heap),
                           lt |-> EUISet_lt(sets[x], sets[y], heap),
                           gt |-> EUISet_gt(sets[x], sets[y], heap),
                           eq |-> EUISet_eq(sets[x], sets[y], heap)]]

\* r = x.copy()
CopyOperand ==
    /\ Building
    /\ UNCHANGED <<eui, rng, heap, pfx, reg>>
    /\ \E x \in Operands :
          /\ sets' = [sets EXCEPT !["r"] = EUISet_copy(sets[x])]
          /\ out' = SetOutcome("copy", <<x>>, "ok")

\* r.add(addr) on the copy just made
CopyAdd ==
    /\ out.op = "copy"
    /\ UNCHANGED <<eui, rng, heap, pfx, reg>>
    /\ \E addr \in AlgInputs :
          \E r \in {EUISet_add(sets["r"], heap, addr)} :
              /\ sets' = [sets EXCEPT !["r"] = r.S]
              /\ out' = SetOutcome("copy_add", <<out.arg[1], addr>>, r.err)

\* r.remove(addr) on the copy just made
CopyRemove ==
    /\ out.op = "copy"
    /\ UNCHANGED <<eui, rng, heap, pfx, reg>>
    /\ \E addr \in AlgInputs :
          \E r \in {EUISet_remove(sets["r"], heap, addr)} :
              \E S \in r.Ss :
                  /\ sets' = [sets EXCEPT !["r"] = S]
                  /\ out' = SetOutcome("copy_remove", <<out.arg[1], addr>>, r.err)

\* r.add(n) on the result
ResultAdd ==
    /\ out.op \in AlgOps \cup {"result_pop"}
    /\ UNCHANGED <<eui, rng, heap, pfx, reg>>
    /\ \E n \in 0..1 :
          \E r \in {EUISet_add(sets["r"], heap, IntArg(PyInt(n)))} :
              /\ sets' = [sets EXCEPT !["r"] = r.S]
              /\ out' = SetOutcome("result_add", <<>>, r.err)

\* r.pop() on the result
ResultPop ==
    /\ out.op \in AlgOps \cup {"result_add"}
    /\ sets["r"] # {}
    /\ UNCHANGED <<eui, rng, heap, pfx, reg>>
    /\ \E e \in sets["r"] :
          /\ sets' = [sets EXCEPT !["r"] = @ \ {e}]
          /\ out' = SetOutcome("result_pop", <<>>, "ok")

NextAlgebra ==
    \/ (Building /\ NewEUI)
    \/ AlgAdd
    \/ (Building /\ AssignValue)
    \/ SetUnion
    \/ SetIntersection
    \/ SetDifference
    \/ SetSymmetricDifference
    \/ SetIsSubset
    \/ SetCompare
    \/ CopyOperand
    \/ CopyAdd
    \/ CopyRemove
    \/ ResultAdd
    \/ ResultPop

SpecAlgebra == InitAlgebra /\ [][NextAlgebra]_vars

---------------------------------------------------------------------------
(* Claims about EUISet.                                                    *)

\* C4: the EUISet obtained by adding an EUIRange r to an empty set is
\* contiguous and its euirange() equals r.
C4_RangeSetCollapses ==
    (out.op = "add" /\ out.arg # <<>> /\ out.err = "ok") =>
        /\ EUISet_is_contiguous(sets[out.arg[1]], heap)
        /\ \A g \in {EUISet_euirange(sets[out.arg[1]], heap)} :
              /\ g.err = "ok"
              /\ g.val # NoRange
              /\ EUIRange_eq(g.val, out.arg[2])

\* C5: no two members of a set have the same (version, value) pair,
\* whatever the set's methods and the caller's writes to added objects did.
C5_NoDuplicateMembers ==
    \A s \in SetNames :
        \A e \in sets[s], f \in sets[s] :
            e # f => EUI_key(Member(e, heap)) # EUI_key(Member(f, heap))

\* the integer values of the members of a table
Values(S, H) == {Member(e, H).value : e \in S}

\* the values are an unbroken run: only the least has no predecessor among them
Unbroken(V) == Cardinality({v \in V : Sub(v, PyInt(1)) \notin V}) = 1

\* C20: is_contiguous() is true iff the set is empty or the integer values
\* of its members, 48-bit and 64-bit alike, form an unbroken ascending
\* sequence (stated for members of pairwise distinct values).
C20_ContiguousIffUnbroken ==
    (out.op = "euirange" /\ Cardinality(Values(sets["a"], heap)) = Cardinality(sets["a"])) =>
        out.val[1] = (sets["a"] = {} \/ Unbroken(Values(sets["a"], heap)))

\* the (version, value) keys of the members of a table
Keys(S, H) == {EUI_key(Member(e, H)) : e \in S}

\* the mathematical result of an operation on two sets of keys
Algebra(op, X, Y) ==
    IF op = "union" THEN X \cup Y
    ELSE IF op = "intersection" THEN X \cap Y
    ELSE IF op = "difference" THEN X \ Y
    ELSE (X \ Y) \cup (Y \ X)

\* the result r of x.op(y) holds exactly the keys of the mathematical
\* result, and the identities hold when y is x
C19_State ==
    /\ out.op \in AlgOps =>
          \A x \in {out.arg[1]}, y \in {out.arg[2]} :
              /\ Keys(sets["r"], heap)
                     = Algebra(out.op, Keys(sets[x], heap), Keys(sets[y], heap))
              /\ (x = y /\ out.op \in {"union", "intersection"})
                     => EUISet_eq(sets["r"], sets[x], heap)
              /\ (x = y /\ out.op = "difference") => sets["r"] = {}
    /\ (out.op = "is_subset" /\ out.arg[1] = out.arg[2]) => out.val

\* the operations, and later mutations of their result, leave a and b alone
C19_Step ==
    out'.op \in AlgOps \cup {"is_subset", "result_add", "result_pop"} =>
        sets'["a"] = sets["a"] /\ sets'["b"] = sets["b"]

\* C19: union, intersection, difference and symmetric_difference return a
\* fresh set holding exactly the mathematical result over (version, value)
\* keys and leave their operands unchanged, also when the result is mutated
\* later; s.union(s) == s, s.intersection(s) == s, s.difference(s) is empty
\* and s.is_subset(s) is true.
C19_AlgebraOverKeys == [](C19_State) /\ [][C19_Step]_vars

\* every member of every set has the hash it was stored with
Unwritten == \A n \in AlgNames : \A e \in sets[n] : e.hash = EUI_hash(Member(e, heap))

\* C24: x.is_subset(y) is true iff every member of x is a member of y;
\* x.is_superset(y) iff y.is_subset(x); x < y iff size(x) < size(y) and
\* x.is_subset(y); x > y iff y < x; x < y never holds when x == y.
C24_SubsetByContainment ==
    out.op = "compare" =>
        \A x \in {out.arg[1]}, y \in {out.arg[2]} :
            /\ out.val.is_subset = (Keys(sets[x], heap) \subseteq Keys(sets[y], heap))
            /\ out.val.is_superset = (Keys(sets[y], heap) \subseteq Keys(sets[x], heap))
            /\ out.val.lt = (/\ Cardinality(sets[x]) < Cardinality(sets[y])
                             /\ out.val.is_subset)
            /\ out.val.gt = (/\ Cardinality(sets[y]) < Cardinality(sets[x])
                             /\ out.val.is_superset)
            /\ out.val.eq => ~out.val.lt

\* the key of the EUI an argument of add or remove stands for
KeyOf(addr) ==
    IF addr.t = "ref" THEN EUI_key(heap[addr.v])
    ELSE EUI_key(EUI_init(addr, None, "None").val)

\* the copy r of s after r.add(x) and after r.remove(x)
C25_State ==
    /\ out.op = "copy_add" =>
          \A s \in {out.arg[1]}, k \in {KeyOf(out.arg[2])} :
              /\ out.err = "ok"
              /\ Keys(sets["r"], heap) = Keys(sets[s], heap) \cup {k}
              /\ k \in Keys(sets[s], heap) => EUISet_eq(sets["r"], sets[s], heap)
              /\ k \notin Keys(sets[s], heap) =>
                     Cardinality(sets["r"]) = Cardinality(sets[s]) + 1
    /\ out.op = "copy_remove" =>
          \A s \in {out.arg[1]}, k \in {KeyOf(out.arg[2])} :
              /\ out.err = "ok"
              /\ Keys(sets["r"], heap) = Keys(sets[s], heap) \ {k}
              /\ k \notin Keys(sets[s], heap) => EUISet_eq(sets["r"], sets[s], heap)

\* copying, and adding to or removing from the copy, leave the originals alone
C25_Step ==
    out'.op \in {"copy", "copy_add", "copy_remove"} =>
        sets'["a"] = sets["a"] /\ sets'["b"] = sets["b"]

\* C25: with c = s.copy(), after c.add(x) c equals s if x was a member of s
\* and s plus x otherwise; after c.remove(x) c equals s without x, with no
\* error when x was not a member; s is unchanged by operations on its copy.
C25_CopyIsIndependent == [](C25_State) /\ [][C25_Step]_vars

\* a listing of the set: as many elements as members, the members' keys,
\* each key above the one before
C23_State ==
    out.op = "iter" =>
        /\ Len(out.val) = Cardinality(sets[out.arg[1]])
        /\ {EUI_key(out.val[i]) : i \in 1..Len(out.val)} = Keys(sets[out.arg[1]], heap)
        /\ \A i \in 1..(Len(out.val) - 1) : KeyLt(EUI_key(out.val[i]), EUI_key(out.val[i + 1]))

\* iterating leaves the set and its members as they are
C23_Step == out'.op = "iter" => (sets' = sets /\ heap' = heap)

\* C23: iterating an EUISet yields every member exactly once, in strictly
\* ascending order of the key (version, value) whatever the insertion order,
\* and leaves the set unchanged.
C23_IterationAscending == [](C23_State) /\ [][C23_Step]_vars

\* an add or update that raised has left every set as it was
C29_Step ==
    (out'.op \in {"add", "update", "update_list"} /\ out'.err # "ok") => sets' = sets

\* C29: if EUISet.update(iterable) or EUISet.add(x) raises, the membership
\* of the set is the same as before the call: no prefix of the iterable has
\* been added.
C29_FailedUpdateAddsNothing == [][C29_Step]_vars

\* the members of S have pairwise distinct values that form an unbroken run
Contiguous(S, H) ==
    /\ Cardinality(Values(S, H)) = Cardinality(S)
    /\ Unbroken(Values(S, H))

\* the keys of the elements a range yields when iterated
RangeKeys(r) == \A it \in {EUIRange_iter(r)} :
    it.err = "ok" /\ {EUI_key(it.val[i]) : i \in 1..Len(it.val)} = Keys(sets["a"], heap)

\* the three outcomes of euirange() on the set a
C21_State ==
    out.op = "euirange" =>
        /\ sets["a"] = {} => (out.err = "ok" /\ out.val[2] = NoRange)
        /\ (sets["a"] # {} /\ Contiguous(sets["a"], heap)) =>
              /\ out.err = "ok"
              /\ out.val[2] # NoRange
              /\ out.val[2].start = EUISet_min(sets["a"], heap)
              /\ out.val[2].end = EUISet_max(sets["a"], heap)
              /\ RangeKeys(out.val[2])
        /\ (sets["a"] # {} /\ ~Contiguous(sets["a"], heap)) => out.err = "ValueError"

\* euirange() leaves the set and its members as they are
C21_Step == out'.op = "euirange" => (sets' = sets /\ heap' = heap)

\* C21: euirange() never changes the set and has exactly one of three
\* outcomes: no range on the empty set, the EUIRange from the minimum to the
\* maximum member, whose elements are exactly the members, on a non-empty
\* contiguous set, and a value error on a non-contiguous set.
C21_EuirangeOutcomes == [](C21_State) /\ [][C21_Step]_vars

---------------------------------------------------------------------------
(* Claims about EUIRange.                                                  *)

\* the range invariant of the specification
ValidRange(r) == r.start.version = r.end.version /\ Le(r.start.value, r.end.value)

\* C2: every EUIRange whose construction succeeds has start.value <=
\* end.value and endpoints of one version, and a construction whose start is
\* numerically greater than its end fails.
C2_StartNotAfterEnd ==
    /\ rng # NoRange => ValidRange(rng)
    /\ out.op = "range_init" =>
          \A s \in {EUI_init(out.arg[1], None, "None")},
             e \in {EUI_init(out.arg[2], None, "None")} :
                (s.err = "ok" /\ e.err = "ok" /\ Lt(e.val.value, s.val.value))
                    => out.err # "ok"

\* C3: iterating an EUIRange r of size >= 1 yields exactly r.size elements,
\* the i-th of which equals r[i], for 48-bit and 64-bit ranges.
C3_IterYieldsEveryIndex ==
    (out.op = "iter" /\ ValidRange(rng)) =>
        /\ out.err = "ok"
        /\ Len(out.val) = EUIRange_size(rng)[3]
        /\ \A i \in 1..Len(out.val) :
              EUI_key(out.val[i]) = EUI_key(EUIRange_getitem(rng, PyInt(i - 1)).val)

\* C6: r[i] is the EUI of r's version with value start + i when
\* 0 <= i < size, the EUI with value end + i + 1 when -size <= i < 0, and an
\* index error otherwise; hence r[i] == r[-(size - i)] for 0 <= i < size.
C6_IndexFromEitherEnd ==
    out.op = "getitem" =>
        \A i \in {PyInt(out.arg)}, size \in {EUIRange_size(rng)} :
            /\ (Le(PyInt(0), i) /\ Lt(i, size)) =>
                  /\ out.err = "ok"
                  /\ EUI_key(out.val) = <<rng.module, Add(rng.start.value, i)>>
                  /\ EUI_key(out.val) = EUI_key(EUIRange_getitem(rng, Sub(i, size)).val)
            /\ (Le(Neg(size), i) /\ Lt(i, PyInt(0))) =>
                  /\ out.err = "ok"
                  /\ EUI_key(out.val) = <<rng.module, Add(Add(rng.end.value, i), PyInt(1))>>
            /\ ~(Le(Neg(size), i) /\ Lt(i, size)) => out.err = "IndexError"

\* a negative index into a 64-bit range returned an element
C6_Witness ==
    /\ out.op = "getitem"
    /\ out.arg < 0
    /\ out.err = "ok"
    /\ rng.module = 64
    /\ EUIRange_size(rng) = PyInt(MaxSmall + 1)

\* C7: for a slice with step # 0 whose normalised indices are not degenerate
\* (start + step < 0 or step > stop), r[from:to:step] yields the same EUIs
\* as Python's slicing of the list [r[0], ..., r[size - 1]].
C7_SliceAsListSlice ==
    (out.op = "getslice" /\ ValidRange(rng)) =>
        \A ix \in {SliceIndices(out.arg[1], out.arg[2], out.arg[3], EUIRange_size(rng)[3])} :
            (ix.err = "ok" /\ ~(ix.val[1] + ix.val[3] < 0 \/ ix.val[3] > ix.val[2])) =>
                \A picked \in {PyRange(PyInt(ix.val[1]), PyInt(ix.val[2]), ix.val[3])} :
                    /\ out.err = "ok"
                    /\ Len(out.val) = Len(picked)
                    /\ \A k \in 1..Len(picked) :
                          EUI_key(out.val[k]) = EUI_key(EUIRange_getitem(rng, picked[k]).val)

\* C8: an EUI x is in r iff x has r's version and start <= x <= end; an
\* EUIRange q is in r iff both its endpoints are within r's bounds; testing
\* an EUI or EUIRange of another version is always false.
C8_ContainmentWithinVersion ==
    (out.op = "contains" /\ ValidRange(rng) /\ out.arg.t \in {"eui", "range"}) =>
        /\ out.err = "ok"
        /\ out.arg.t = "eui" =>
              out.val = (/\ out.arg.v.version = rng.module
                         /\ Le(rng.start.value, out.arg.v.value)
                         /\ Le(out.arg.v.value, rng.end.value))
        /\ out.arg.t = "range" =>
              out.val = (/\ out.arg.v.module = rng.module
                         /\ Le(rng.start.value, out.arg.v.start.value)
                         /\ Le(out.arg.v.end.value, rng.end.value))

\* the case of C9: a and b of one version start at the same value and the
\* size of a has fewer significant bits than the size of b
FewerBits(a, b) ==
    /\ a.module = b.module
    /\ a.start.value = b.start.value
    /\ BitLength(EUIRange_size(a)) < BitLength(EUIRange_size(b))

C27_SizeAndLenExact ==
    out.op = "len" =>
        \A n \in {Add(Sub(rng.end.value, rng.start.value), PyInt(1))} :
            /\ out.val.size = n
            /\ out.err = "ok"
            /\ out.val.len = n

\* C28: the order on EUIRange agrees with its equality: a <= b and b <= a
\* imply a == b, and a == b implies neither a < b nor a > b.
C28_OrderAgreesWithEquality ==
    out.op = "compare" =>
        /\ (out.val.le /\ EUIRange_le(out.arg, rng)) => out.val.eq
        /\ out.val.eq => (~out.val.lt /\ ~out.val.gt)

---------------------------------------------------------------------------
(* SpecIAB: IAB.split_iab_mac called on unsigned integers.                 *)

\* prefixes: the two IAB values and a neighbour that is not one
IabPrefixes == IAB_EUI_VALUES \cup {PyInt(20675)}

\* low 12 bits tried
IabLowBits == (0..MaxSmall) \cup {291, 4095}

\* 36-bit inputs prefix:xxx, 48-bit inputs prefix:yyy:xxx, and short ones
IabInputs ==
    {Add(ShiftL(p, 12), PyInt(x)) : p \in IabPrefixes, x \in IabLowBits}
        \cup {Add(ShiftL(p, 24), PyInt(y * 4096 + x)) :
                 p \in IabPrefixes, y \in {0, 1, 2748}, x \in IabLowBits}
        \cup IabPrefixes
        \cup {PyInt(n) : n \in 0..MaxSmall}

InitIAB ==
    /\ eui = NoObj
    /\ rng = NoRange
    /\ heap = NoHeap
    /\ pfx = NoPrefix
    /\ reg = NoLookup
    /\ sets = NoSets
    /\ out = NoOut

\* IAB.split_iab_mac(eui_int, strict)
SplitIabMac ==
    /\ UNCHANGED <<eui, rng, heap, sets, pfx, reg>>
    /\ \E eui_int \in IabInputs, strict \in BOOLEAN :
          out' = Outcome("split_iab_mac", <<eui_int, strict>>,
                         IAB_split_iab_mac(eui_int, strict))

\* the blocks ieee.IAB_INDEX may hold: none, or some of the blocks tried
IabIndexes ==
    {{}, {Add(ShiftL(p, 12), PyInt(y)) : p \in IAB_EUI_VALUES, y \in {0, 291}}}

\* '00-50-C2-12-30-00', '00-50-C2-12-31-23', the same with ':', and a block
IabStrings ==
    {MacStr(<<0, 80, 194, 18, 48, 0>>, Dash, FALSE),
     MacStr(<<0, 80, 194, 18, 49, 35>>, Dash, FALSE),
     MacStr(<<0, 80, 194, 18, 48, 0>>, Colon, FALSE),
     MacStr(<<0, 80, 194>>, Dash, FALSE)}

IabArgs ==
    {IntArg(v) : v \in IabInputs} \cup {StrArg(s) : s \in IabStrings} \cup {EUIArg(NoObj)}

\* IAB(iab, strict)
IabConstruct ==
    /\ UNCHANGED <<eui, rng, heap, sets, pfx, reg>>
    /\ \E iab \in IabArgs, strict \in BOOLEAN, index \in IabIndexes :
          out' = Outcome("iab_init", <<iab, strict, index>>, IAB_init(iab, strict, index))

NextIAB ==
    \/ SplitIabMac
    \/ IabConstruct

SpecIAB == InitIAB /\ [][NextIAB]_vars

LowBits(v) == v[3] % 4096

---------------------------------------------------------------------------
(* SpecPrefix: an EUIPrefix is constructed from a string and its           *)
(* properties are read.                                                    *)

\* nibble strings of n characters: all '0', all 'A', all 'a', and 1 2 3 ...
NibbleFills(n) ==
    {[i \in 1..n |-> 48], [i \in 1..n |-> 65], [i \in 1..n |-> 97],
     [i \in 1..n |-> HexChar(i % 16, FALSE)]}

\* the nibbles in groups of two joined by sep, e.g. AA:AA:A
RECURSIVE PrefixStr(_, _)
PrefixStr(nibbles, sep) ==
    IF Len(nibbles) <= 2 THEN nibbles
    ELSE <<nibbles[1], nibbles[2]>> \o sep \o PrefixStr(SubSeq(nibbles, 3, Len(nibbles)), sep)

\* 'GG:GG:GG:G' and '00:11:22:33:44:55:66' (test_eui_prefixes.py), mixed
\* separators, a foreign separator, none, a trailing one, and short strings
BadPrefixes ==
    {PrefixStr([i \in 1..7 |-> 71], Colon),
     MacStr(<<0, 17, 34, 51, 68, 85, 102>>, Colon, FALSE),
     <<65, 65, 58, 65, 65, 45, 65>>,
     <<65, 65, 46, 65>>,
     <<65, 65, 65, 65>>,
     <<65, 65, 58, 65, 65, 58>>,
     <<65, 65, 58>>,
     <<>>}

PrefixInputs ==
    {PrefixStr(nibbles, sep) : nibbles \in UNION {NibbleFills(n) : n \in 1..13},
                               sep \in {Colon, Dash}}
        \cup {[PrefixStr(nibbles, Colon) EXCEPT ![Len(nibbles) + 1] = 65] :
                 nibbles \in NibbleFills(5)}
        \cup BadPrefixes

InitPrefix ==
    /\ eui = NoObj
    /\ rng = NoRange
    /\ heap = NoHeap
    /\ sets = NoSets
    /\ pfx = NoPrefix
    /\ reg = NoLookup
    /\ out = NoOut

\* p = EUIPrefix(addr)
PrefixConstruct ==
    /\ UNCHANGED <<eui, rng, heap, sets, reg>>
    /\ \E addr \in PrefixInputs :
          \E r \in {EUIPrefix_init(addr)} :
              /\ pfx' = IF r.err = "ok" THEN r.val ELSE NoPrefix
              /\ out' = Outcome("prefix_init", addr, [r EXCEPT !.val = NoObj])

\* p.prefixlen
PrefixPrefixlen ==
    /\ pfx # NoPrefix
    /\ UNCHANGED <<eui, rng, heap, sets, pfx, reg>>
    /\ out' = Outcome("prefixlen", <<>>, Ok(EUIPrefix_prefixlen(pfx)))

\* p.first
PrefixFirst ==
    /\ pfx # NoPrefix
    /\ UNCHANGED <<eui, rng, heap, sets, pfx, reg>>
    /\ out' = Outcome("first", <<>>, EUIPrefix_first(pfx))

\* p.last
PrefixLast ==
    /\ pfx # NoPrefix
    /\ UNCHANGED <<eui, rng, heap, sets, pfx, reg>>
    /\ out' = Outcome("last", <<>>, EUIPrefix_last(pfx))

\* p.size
PrefixSize ==
    /\ pfx # NoPrefix
    /\ UNCHANGED <<eui, rng, heap, sets, pfx, reg>>
    /\ out' = Outcome("size", <<>>, EUIPrefix_size(pfx))

\* str(EUIPrefix(addr))
PrefixStrOf ==
    /\ UNCHANGED <<eui, rng, heap, sets, reg>>
    /\ \E addr \in PrefixInputs :
          \E r \in {EUIPrefix_init(addr)} :
              /\ pfx' = IF r.err = "ok" THEN r.val ELSE NoPrefix
              /\ out' = Outcome("str", addr,
                                IF r.err = "ok" THEN Ok(EUIPrefix_str(r.val))
                                ELSE [r EXCEPT !.val = NoObj])

NextPrefix ==
    \/ PrefixConstruct
    \/ PrefixStrOf
    \/ PrefixPrefixlen
    \/ PrefixFirst
    \/ PrefixLast
    \/ PrefixSize

SpecPrefix == InitPrefix /\ [][NextPrefix]_vars

---------------------------------------------------------------------------
(* Claims about EUIPrefix.                                                 *)

\* a string with a separator position: one separator, ':' or '-', at every
\* third character except the last, hex digits elsewhere, at most 12 of them
WellFormed(s) ==
    /\ \A i \in 1..Len(s) :
          IF i % 3 = 0 /\ i < Len(s)
          THEN <<s[i]>> \in {Colon, Dash} /\ s[i] = s[3]
          ELSE HexVal(s[i]) >= 0
    /\ Cardinality({i \in 1..Len(s) : ~(i % 3 = 0 /\ i < Len(s))}) <= 12

\* C17: EUIPrefix(s) succeeds exactly when s is well formed and otherwise
\* fails with the format error; no other error escapes the constructor,
\* also for strings too short to hold a separator.
C17_OnlyFormatErrors ==
    out.op = "prefix_init" =>
        /\ out.err \in {"ok", "AddrFormatError"}
        /\ Len(out.arg) > 3 => (out.err = "ok" <=> WellFormed(out.arg))

\* P * 16^(12 - n) for the n nibbles of p, whose hex value is P
Aligned(p) == ShiftL(HexToInt(p.value, PyInt(0)), 48 - 4 * Len(p.value))

\* 16^(12 - n) = 2^(48 - 4n)
BlockSize(p) == Pow2(48 - 4 * Len(p.value))

\* C18: a prefix of n nibbles with hex value P has prefixlen 4n,
\* first = P * 16^(12 - n), last = first + 16^(12 - n) - 1 and
\* size = 16^(12 - n) = 2^(48 - prefixlen), and first is a multiple of size.
C18_PrefixBlockAligned ==
    /\ out.op = "prefixlen" => out.val = 4 * Len(pfx.value)
    /\ out.op = "first" =>
          /\ out.err = "ok"
          /\ out.val = Aligned(pfx)
          /\ BitAnd(out.val, Sub(BlockSize(pfx), PyInt(1))) = PyInt(0)
    /\ out.op = "last" =>
          /\ out.err = "ok"
          /\ out.val = Sub(Add(Aligned(pfx), BlockSize(pfx)), PyInt(1))
    /\ out.op = "size" =>
          /\ out.err = "ok"
          /\ out.val = BlockSize(pfx)

\* the last address of the 20-bit prefix 12:34:5 was read
C18_Witness ==
    /\ out.op = "last"
    /\ out.err = "ok"
    /\ pfx.value = <<49, 50, 51, 52, 53>>
    /\ out.val = <<0, 1193055, 16777215>>

\* C26: for every string s the constructor accepts, str(EUIPrefix(s)) is s
\* with its hex digits in upper case.
C26_StrRoundTrip ==
    (out.op = "str" /\ out.err = "ok") => out.val = Upper(out.arg)

---------------------------------------------------------------------------
(* SpecRegistry: OUI and IAB objects are constructed one after another,    *)
(* each construction going from the index test through the spans of its    *)
(* index entry to fh.close().                                              *)

\* "1 (hex) X\nY\n", "2 (hex)\n" and two bytes that are not UTF-8
RecordGood == <<49, 32, 40, 104, 101, 120, 41, 32, 88, 10, 89, 10>>

RecordNoOrg == <<50, 32, 40, 104, 101, 120, 41, 10>>

RecordNotUtf8 == <<255, 10>>

RegistryFile == RecordGood \o RecordNoOrg \o RecordNotUtf8

\* the spans of the three records, and one with a negative offset
Spans ==
    {<<0, Len(RecordGood)>>,
     <<Len(RecordGood), Len(RecordNoOrg)>>,
     <<Len(RecordGood) + Len(RecordNoOrg), Len(RecordNotUtf8)>>,
     <<-1, Len(RecordNotUtf8)>>}

\* what the index holds for a value: nothing (<<>>), or up to MaxSpans spans
IndexEntries == {<<>>} \cup UNION {[1..n -> Spans] : n \in 1..MaxSpans}

OuiArgs ==
    {IntArg(PyInt(n)) : n \in -1..MaxSmall}
        \cup {IntArg(Pow2(24)), StrArg(MacStr(<<0, 0, 1>>, Dash, FALSE)),
              StrArg(BadStr), EUIArg(NoObj)}

IabLookupArgs ==
    {IntArg(Add(ShiftL(PyInt(20674), 12), PyInt(291))),
     IntArg(Add(ShiftL(PyInt(20674), 24), PyInt(1))),
     IntArg(PyInt(0)),
     StrArg(MacStr(<<0, 80, 194, 18, 48, 0>>, Dash, FALSE)),
     EUIArg(NoObj)}

InitRegistry ==
    /\ eui = NoObj
    /\ rng = NoRange
    /\ heap = NoHeap
    /\ pfx = NoPrefix
    /\ sets = NoSets
    /\ out = NoOut
    /\ reg = NoLookup

\* OUI(oui) up to the opening of oui.txt
OuiOpen ==
    /\ reg.pc \in {"idle", "returned", "raised"}
    /\ UNCHANGED <<eui, rng, heap, sets, pfx, out>>
    /\ \E oui \in OuiArgs, entry \in IndexEntries :
          reg' = Lookup_begin("OUI", OUI_value(oui), entry)

\* IAB(iab, strict) up to the opening of iab.txt
IabOpen ==
    /\ reg.pc \in {"idle", "returned", "raised"}
    /\ UNCHANGED <<eui, rng, heap, sets, pfx, out>>
    /\ \E iab \in IabLookupArgs, strict \in BOOLEAN, index \in IabIndexes,
          entry \in IndexEntries \ {<<>>} :
          \E r \in {IAB_init(iab, strict, index)} :
              reg' = Lookup_begin("IAB", IF r.err = "ok" THEN Ok(r.val.value) ELSE r, entry)

\* the next span is sought, read, decoded and parsed
ReadSpan ==
    /\ reg.pc = "open"
    /\ reg.todo # <<>>
    /\ UNCHANGED <<eui, rng, heap, sets, pfx, out>>
    /\ reg' = Lookup_span(reg, RegistryFile)

\* fh.close() and return
CloseRegistry ==
    /\ reg.pc = "open"
    /\ reg.todo = <<>>
    /\ UNCHANGED <<eui, rng, heap, sets, pfx, out>>
    /\ reg' = Lookup_close(reg)

NextRegistry ==
    \/ OuiOpen
    \/ IabOpen
    \/ ReadSpan
    \/ CloseRegistry

SpecRegistry == InitRegistry /\ [][NextRegistry]_vars

---------------------------------------------------------------------------
(* Claims about the registry lookup.                                       *)

\* C22: a construction that opened the registry file has closed it when the
\* constructor returns or raises, whichever step of a span failed; a value
\* absent from the index fails with the not-registered error, nothing opened.
C22_HandleClosedOnExit ==
    reg.pc \in {"returned", "raised"} =>
        /\ reg.fh # "none" => reg.fh = "closed"
        /\ reg.pc = "returned" => reg.indexed
        /\ reg.err = "NotRegisteredError" => reg.fh = "none"

=============================================================================
